---- MODULE Spec2Model ----
(***************************************************************************)
(* Coin ledger and redemption workflow of the poll-play backend            *)
(* (src/app.py).  Every request handler runs in its own SQLAlchemy session *)
(* against one SQLite database: a handler's SELECTs read the committed     *)
(* state one statement at a time, its attribute assignments stay local to  *)
(* the session, and db.commit() flushes the changed columns as one         *)
(* transaction.  A handler is therefore modelled as its read step(s)       *)
(* followed by one commit step; the frame of a handler holds what its      *)
(* session has loaded.                                                     *)
(***************************************************************************)
EXTENDS Integers, FiniteSets, Sequences, TLC

\* ---------------------------------------------------------------- bounds
\* Balances are explored within MaxCoins of the value a row was seeded with.
MaxCoins == 2
\* The net amount debited for one request is explored within -MaxNet..MaxNet.
MaxNet == 6
\* The vote count of an option is explored up to MaxVotes.
MaxVotes == 2
\* With referral rewards, balances are explored within MaxReward of the seed.
MaxReward == 17
\* The clock is explored up to the instant MaxInstant.
MaxInstant == 37
\* The table ads_stats is explored up to MaxAdsRows rows.
MaxAdsRows == 3
ScenarioRoom == 6
\* dailyAttempts is explored down to -MaxOverdraw.
MaxOverdraw == 2
\* Waiting for a day moves the clock up to the instant MaxWaitInstant.
MaxWaitInstant == 85

\* ------------------------------------------------------ program constants
AdminSeedCoins == 9999
DefaultReferrerCoins == 15
DefaultRefereeCoins == 5
\* Asia/Kolkata is UTC+5:30: eleven half hours ahead; a day has 48 of them.
ISTOffset == 11
HalfHoursPerDay == 48
\* The clock starts half an hour before local midnight (18:00 UTC of day 0).
StartInstant == 36
DefaultAttempts == 3

AdminId == "admin-1"
\* The user of the end-to-end scenario, whose balance is followed up to
\* ScenarioRoom.
ScenarioUser == "u3"
UserIds == {AdminId, "u1", "u2", ScenarioUser}
PollIds == {"poll1"}
GameIds == {"g1", "g2"}
OptionIds == {"o1", "o2"}
ReqIds == {"r1", "r2"}
Procs == {"p1", "p2"}
SeqProc == "p1"

NoUser == "no-user"
NoReq == "no-req"
Absent == "absent"   \* a key missing from the request_data dict
NoNotes == "None"    \* adminNotes IS NULL
NoTime == 0          \* updatedAt IS NULL
None == "None"       \* a NULL column, an Optional field left out
NoOption == "no-option"
NoPoll == "no-poll"

Statuses == {"pending", "processed", "rejected"}
Notes == {NoNotes, "n1"}
Times == {1, 2}

VARIABLES
  users,     \* table users: id -> [exists, coins]
  requests,  \* table redemption_requests: id -> row
  frame,     \* per handler thread: the position and the session's loaded values
  last,      \* the response of the handler that returned last
  ledger,    \* per user: seed value plus the deltas of the adjustments that reported success
  net,       \* per request: amounts debited minus amounts refunded by handlers that reported success
  toggle,    \* observer of the status sequence pending -> processed -> pending -> processed
  polls,     \* table polls: the ids stored
  options,   \* table poll_options: id -> [exists, poll_id, votes, votedBy]
  settings,  \* table settings: key -> value, Absent without a row
  ads,       \* table ads_stats: the rows in the order of their autoincrement id
  games,     \* table game_results: id -> [exists, user_id, coinsWon]
  clock,     \* the wall clock, in half hours since 00:00 UTC of day 0
  stdout     \* the [coins] and [ads] lines printed by the latest step

vars == <<users, requests, frame, last, ledger, net, toggle, polls, options, settings,
          ads, games, clock, stdout>>
\* The daily activity tables and the clock.
activity == <<ads, games, clock>>
db == <<users, requests>>
ghost == <<ledger, net>>
\* The tables the coin and redemption handlers neither read nor write.
elsewhere == <<polls, options, settings>>

NoRow == [exists |-> FALSE, user_id |-> NoUser, amount |-> 0, status |-> "pending",
          adminNotes |-> NoNotes, updatedAt |-> NoTime]

NoGame == "no-game"

NoGameRow == [exists |-> FALSE, user_id |-> NoUser, coinsWon |-> 0]

NoOptionRow == [exists |-> FALSE, poll_id |-> NoPoll, votes |-> 0, votedBy |-> <<>>]

NoUserRow == [exists |-> FALSE, coins |-> 0, referralCode |-> None, referredBy |-> None,
              dailyAttempts |-> DefaultAttempts, lastAttemptDate |-> StartInstant]

Idle == [pc |-> "idle", op |-> "none", user |-> NoUser, req |-> NoReq, amount |-> 0,
         new_status |-> Absent, new_notes |-> Absent,
         old_status |-> Absent, old_notes |-> NoNotes, before |-> 0,
         poll |-> NoPoll, option |-> NoOption, votes |-> 0, votedBy |-> <<>>,
         payload |-> <<>>, user_found |-> FALSE,
         referralCode |-> None, referredBy |-> None,
         old_referralCode |-> None, old_referredBy |-> None,
         referrer |-> NoUser, referrer_before |-> 0,
         referrer_reward |-> 0, referee_reward |-> 0,
         date |-> None, row |-> 0, row_watched |-> 0, row_coins |-> 0,
         game |-> NoGame, dailyAttempts |-> 0, lastAttemptDate |-> 0]

NoToggle == [phase |-> 0, req |-> NoReq, base |-> 0, failed |-> FALSE]

NoResponse == [op |-> "none", res |-> "none"]

\* print(f"[coins] ...: user=... before=... after=..."): one entry per user
\* the line names.
Line(source, user_id, before, after) ==
  [source |-> source, user |-> user_id, before |-> before, after |-> after]

NoLine == {}

SettingKeys == {"referralReferrerCoins", "referralRefereeCoins", "coinValueINR"}

SeedOf(u) == IF u = AdminId THEN AdminSeedCoins ELSE 0

Room(u) == IF u = ScenarioUser THEN ScenarioRoom ELSE MaxCoins

InRange(u, v) == v - SeedOf(u) >= -Room(u) /\ v - SeedOf(u) <= Room(u)

NetInRange(v) == v >= -MaxNet /\ v <= MaxNet

Init ==
  /\ users = [u \in UserIds |->
               IF u = AdminId THEN [NoUserRow EXCEPT !.exists = TRUE, !.coins = AdminSeedCoins]
                              ELSE NoUserRow]
  /\ requests = [r \in ReqIds |-> NoRow]
  /\ frame = [p \in Procs |-> Idle]
  /\ last = NoResponse
  /\ ledger = [u \in UserIds |-> SeedOf(u)]
  /\ net = [r \in ReqIds |-> 0]
  /\ toggle = NoToggle
  /\ polls = {}
  /\ options = [o \in OptionIds |-> NoOptionRow]
  /\ settings = [k \in SettingKeys |-> Absent]
  /\ ads = <<>>
  /\ games = [g \in GameIds |-> NoGameRow]
  /\ clock = StartInstant
  /\ stdout = NoLine

\* referralCode is UNIQUE: another row already holds the (non-NULL) code.
CodeTaken(code, user_id) ==
  /\ code # None
  /\ \E u \in UserIds \ {user_id} : users[u].exists /\ users[u].referralCode = code

\* The handler of thread p returns (or raises) res; its session is closed.
Return(p, op, res) ==
  /\ frame' = [frame EXCEPT ![p] = Idle]
  /\ last' = [op |-> op, res |-> res]
  /\ stdout' = NoLine

\* The same for a handler that printed lines on its way out.
ReturnLogged(p, op, res, lines) ==
  /\ frame' = [frame EXCEPT ![p] = Idle]
  /\ last' = [op |-> op, res |-> res]
  /\ stdout' = lines

\* ------------------------------------------------------------- pure parts

\* Variant: a missing key is read as 'pending'.
GetOr_Pending(value, default) == IF value = Absent THEN "pending" ELSE value

\* request_data.get("status", request_db.status) and .get("adminNotes", ...)
GetOr(value, default) == IF value = Absent THEN default ELSE value

\* Variant: every change of the status debits.
Debits_AnyChange(old_status, new_status) == new_status # old_status

\* Variant: no change of the status debits.
Debits_Never(old_status, new_status) == FALSE

\* "changed to processed and it wasn't already processed"
Debits(old_status, new_status) == new_status = "processed" /\ old_status # "processed"

\* Variant: leaving 'processed' refunds nothing.
Refunds_Never(old_status, new_status) == FALSE

\* "changed from processed to something else"
Refunds(old_status, new_status) == old_status = "processed" /\ new_status # "processed"

\* Variant: the balance check is missing.
Insufficient_Never(coins, amount) == FALSE

\* user_db.coins < request_db.amount
Insufficient(coins, amount) == coins < amount

\* Variant: the refund has the sign of the debit.
CoinsAfter_RefundSign(before, amount, old_status, new_status) ==
  IF new_status = "processed" /\ old_status # "processed" THEN before - amount
  ELSE IF old_status = "processed" /\ new_status # "processed" THEN before - amount
  ELSE before

\* The balance the session holds for the owner after the status logic ran.
CoinsAfter(before, amount, old_status, new_status) ==
  IF Debits(old_status, new_status) THEN before - amount
  ELSE IF Refunds(old_status, new_status) THEN before + amount
  ELSE before

\* ---------------------------------------------------------------- signup

signup_read(p, user_id, coins, referralCode, referredBy) ==
  /\ frame[p].pc = "idle"
  /\ IF users[user_id].exists
       THEN /\ Return(p, "signup", "exists")
       ELSE /\ frame' = [frame EXCEPT ![p] =
                 [Idle EXCEPT !.pc = "signup_commit", !.op = "signup",
                              !.user = user_id, !.amount = coins,
                              !.referralCode = referralCode, !.referredBy = referredBy]]
            /\ last' = NoResponse /\ stdout' = NoLine
  /\ UNCHANGED <<db, ghost>>

signup_commit(p) ==
  /\ frame[p].pc = "signup_commit"
  /\ LET f == frame[p] IN
     IF users[f.user].exists \/ CodeTaken(f.referralCode, f.user)
       THEN \* the INSERT hits the primary key or a unique column: IntegrityError
            /\ Return(p, "signup", "error")
            /\ UNCHANGED <<db, ghost>>
       ELSE /\ users' = [users EXCEPT ![f.user] =
                 [exists |-> TRUE, coins |-> f.amount,
                  referralCode |-> f.referralCode, referredBy |-> f.referredBy,
                  dailyAttempts |-> DefaultAttempts, lastAttemptDate |-> clock]]
            /\ ledger' = [ledger EXCEPT ![f.user] = f.amount]
            /\ Return(p, "signup", "ok")
            /\ UNCHANGED <<requests, net>>

\* ------------------------------------------------- increment / decrement

increment_user_coins_read(p, user_id, amount) ==
  /\ frame[p].pc = "idle"
  /\ IF ~users[user_id].exists
       THEN Return(p, "increment", "not_found")
       ELSE /\ frame' = [frame EXCEPT ![p] =
                 [Idle EXCEPT !.pc = "inc_commit", !.op = "increment", !.user = user_id,
                              !.amount = amount, !.before = users[user_id].coins]]
            /\ last' = NoResponse /\ stdout' = NoLine
  /\ UNCHANGED <<db, ghost>>

increment_user_coins_commit(p) ==
  /\ frame[p].pc = "inc_commit"
  /\ LET f == frame[p]
         after == f.before + f.amount
     IN /\ InRange(f.user, after)
        /\ InRange(f.user, ledger[f.user] + f.amount)
        /\ users' = [users EXCEPT ![f.user].coins = after]
        /\ ledger' = [ledger EXCEPT ![f.user] = @ + f.amount]
  /\ ReturnLogged(p, "increment", "ok",
       {Line("increment", frame[p].user, frame[p].before,
             frame[p].before + frame[p].amount)})
  /\ UNCHANGED <<requests, net>>

\* Variant: the balance is not compared with the amount.
decrement_user_coins_read_unchecked(p, user_id, amount) ==
  /\ frame[p].pc = "idle"
  /\ IF ~users[user_id].exists
       THEN Return(p, "decrement", "not_found")
       ELSE /\ frame' = [frame EXCEPT ![p] =
                 [Idle EXCEPT !.pc = "dec_commit", !.op = "decrement", !.user = user_id,
                              !.amount = amount, !.before = users[user_id].coins]]
            /\ last' = NoResponse /\ stdout' = NoLine
  /\ UNCHANGED <<db, ghost>>

decrement_user_coins_read(p, user_id, amount) ==
  /\ frame[p].pc = "idle"
  /\ IF ~users[user_id].exists
       THEN Return(p, "decrement", "not_found")
       ELSE IF users[user_id].coins < amount
       THEN Return(p, "decrement", "insufficient")
       ELSE /\ frame' = [frame EXCEPT ![p] =
                 [Idle EXCEPT !.pc = "dec_commit", !.op = "decrement", !.user = user_id,
                              !.amount = amount, !.before = users[user_id].coins]]
            /\ last' = NoResponse /\ stdout' = NoLine
  /\ UNCHANGED <<db, ghost>>

decrement_user_coins_commit(p) ==
  /\ frame[p].pc = "dec_commit"
  /\ LET f == frame[p]
         after == f.before - f.amount
     IN /\ InRange(f.user, after)
        /\ InRange(f.user, ledger[f.user] - f.amount)
        /\ users' = [users EXCEPT ![f.user].coins = after]
        /\ ledger' = [ledger EXCEPT ![f.user] = @ - f.amount]
        /\ last' = [op |-> "decrement", res |-> "ok", coins |-> after]
        /\ stdout' = {Line("decrement", f.user, f.before, after)}
  /\ frame' = [frame EXCEPT ![p] = Idle]
  /\ UNCHANGED <<requests, net>>

\* ------------------------------------------------------------ redemption

\* Variant: creation refuses an amount above the owner's balance.
add_redemption_request_checked(p, id, user_id, amount, status, adminNotes, updatedAt) ==
  /\ frame[p].pc = "idle"
  /\ IF requests[id].exists
       THEN /\ Return(p, "add_request", "error")
            /\ UNCHANGED requests
       ELSE IF users[user_id].coins < amount
       THEN /\ Return(p, "add_request", "insufficient")
            /\ UNCHANGED requests
       ELSE /\ requests' = [requests EXCEPT ![id] =
                 [exists |-> TRUE, user_id |-> user_id, amount |-> amount, status |-> status,
                  adminNotes |-> adminNotes, updatedAt |-> updatedAt]]
            /\ Return(p, "add_request", "ok")
  /\ UNCHANGED <<users, ghost>>

\* One INSERT and commit; nothing is read before it.
add_redemption_request(p, id, user_id, amount, status, adminNotes, updatedAt) ==
  /\ frame[p].pc = "idle"
  /\ IF requests[id].exists
       THEN \* the INSERT hits the primary key: IntegrityError
            /\ Return(p, "add_request", "error")
            /\ UNCHANGED requests
       ELSE /\ requests' = [requests EXCEPT ![id] =
                 [exists |-> TRUE, user_id |-> user_id, amount |-> amount, status |-> status,
                  adminNotes |-> adminNotes, updatedAt |-> updatedAt]]
            /\ Return(p, "add_request", "ok")
  /\ UNCHANGED <<users, ghost>>

\* SELECT of the request row.
update_redemption_request_status_load(p, request_id, data_status, data_notes) ==
  /\ frame[p].pc = "idle"
  /\ IF ~requests[request_id].exists
       THEN Return(p, "update", "not_found")
       ELSE LET row == requests[request_id] IN
            /\ frame' = [frame EXCEPT ![p] =
                 [Idle EXCEPT !.pc = "upd_user", !.op = "update", !.req = request_id,
                              !.user = row.user_id, !.amount = row.amount,
                              !.old_status = row.status, !.old_notes = row.adminNotes,
                              !.new_status = data_status, !.new_notes = data_notes]]
            /\ last' = NoResponse /\ stdout' = NoLine
  /\ UNCHANGED <<db, ghost>>

\* Variant: the SELECT of the owner takes a row lock that the handler running
\* in another thread holds until it returns.
update_redemption_request_status_user_locked(p) ==
  /\ frame[p].pc = "upd_user"
  /\ \A q \in Procs \ {p} : frame[q].pc = "idle"
  /\ frame' = [frame EXCEPT ![p].pc = "upd_commit",
                            ![p].before = users[frame[p].user].coins]
  /\ last' = NoResponse /\ stdout' = NoLine
  /\ UNCHANGED <<db, ghost>>

\* SELECT of the owner (selectinload), then the status logic on the loaded objects.
update_redemption_request_status_user(p) ==
  /\ frame[p].pc = "upd_user"
  /\ LET f == frame[p]
         new_status == GetOr(f.new_status, f.old_status)
     IN IF ~users[f.user].exists
          THEN Return(p, "update", "not_found")
          ELSE IF Debits(f.old_status, new_status) /\ Insufficient(users[f.user].coins, f.amount)
          THEN Return(p, "update", "insufficient")
          ELSE /\ frame' = [frame EXCEPT ![p].pc = "upd_commit",
                                         ![p].before = users[f.user].coins]
               /\ last' = NoResponse /\ stdout' = NoLine
  /\ UNCHANGED <<db, ghost>>

\* Variant: the balance is committed on its own and the status write then fails.
update_redemption_request_status_commit_split(p, now) ==
  /\ frame[p].pc = "upd_commit"
  /\ LET f == frame[p]
         new_status == GetOr(f.new_status, f.old_status)
         after == CoinsAfter(f.before, f.amount, f.old_status, new_status)
     IN /\ InRange(f.user, after)
        /\ InRange(f.user, ledger[f.user] + (after - f.before))
        /\ NetInRange(net[f.req] + (f.before - after))
        /\ users' = [users EXCEPT ![f.user].coins = after]
        /\ ledger' = [ledger EXCEPT ![f.user] = @ + (after - f.before)]
        /\ net' = [net EXCEPT ![f.req] = @ + (f.before - after)]
        /\ UNCHANGED requests
  /\ Return(p, "update", "error")

\* Variant: the commit also rewrites the amount of the request.
update_redemption_request_status_commit_reprice(p, now) ==
  /\ frame[p].pc = "upd_commit"
  /\ LET f == frame[p]
         new_status == GetOr(f.new_status, f.old_status)
         after == CoinsAfter(f.before, f.amount, f.old_status, new_status)
     IN /\ InRange(f.user, after)
        /\ InRange(f.user, ledger[f.user] + (after - f.before))
        /\ NetInRange(net[f.req] + (f.before - after))
        /\ users' = [users EXCEPT ![f.user].coins = after]
        /\ requests' = [requests EXCEPT ![f.req].status = new_status,
                                        ![f.req].amount = 0,
                                        ![f.req].updatedAt = now]
        /\ ledger' = [ledger EXCEPT ![f.user] = @ + (after - f.before)]
        /\ net' = [net EXCEPT ![f.req] = @ + (f.before - after)]
  /\ Return(p, "update", "ok")

\* db.commit(): the changed columns of both rows in one transaction.
update_redemption_request_status_commit(p, now) ==
  /\ frame[p].pc = "upd_commit"
  /\ LET f == frame[p]
         new_status == GetOr(f.new_status, f.old_status)
         new_notes == GetOr(f.new_notes, f.old_notes)
         after == CoinsAfter(f.before, f.amount, f.old_status, new_status)
     IN /\ InRange(f.user, after)
        /\ InRange(f.user, ledger[f.user] + (after - f.before))
        /\ NetInRange(net[f.req] + (f.before - after))
        /\ users' = IF after # f.before
                      THEN [users EXCEPT ![f.user].coins = after]
                      ELSE users
        /\ requests' = [requests EXCEPT ![f.req] =
             [@ EXCEPT !.status = IF new_status # f.old_status THEN new_status ELSE @,
                       !.adminNotes = IF new_notes # f.old_notes THEN new_notes ELSE @,
                       !.updatedAt = now]]
        /\ ledger' = [ledger EXCEPT ![f.user] = @ + (after - f.before)]
        /\ net' = [net EXCEPT ![f.req] = @ + (f.before - after)]
  /\ Return(p, "update", "ok")

\* db.commit() raises (the database is locked by another writer): nothing of
\* the session is written and the handler answers with an error.
commit_fails(p) ==
  /\ frame[p].pc \in {"signup_commit", "inc_commit", "dec_commit", "upd_commit",
                      "vote_commit", "ref_commit", "user_commit", "ads_commit", "game_commit", "attempt_commit",
                      "refresh_commit"}
  /\ ReturnLogged(p, frame[p].op, "error",
       IF frame[p].pc \in {"vote_commit", "game_commit"} /\ frame[p].user_found
         THEN {Line(frame[p].op, frame[p].user, frame[p].before,
                    frame[p].before + (IF frame[p].pc = "vote_commit"
                                         THEN 1 ELSE frame[p].amount))}
         ELSE NoLine)
  /\ UNCHANGED <<db, ghost>>

\* ----------------------------------------------------------------- polls

\* json.loads(json.dumps(votedBy)): a list of ids is stored as text and read
\* back as the same list, order and repetitions kept.
Contains(votedBy, user_id) == \E i \in 1..Len(votedBy) : votedBy[i] = user_id

\* One transaction inserting the poll and the options of the payload, each with
\* the votes and votedBy the payload carries.  payload: option id -> [votes, votedBy].
add_poll(p, poll_id, payload) ==
  /\ frame[p].pc = "idle"
  /\ IF poll_id \in polls \/ \E o \in DOMAIN payload : options[o].exists
       THEN \* the INSERT hits a primary key: IntegrityError
            /\ Return(p, "add_poll", "error")
            /\ UNCHANGED <<polls, options>>
       ELSE /\ polls' = polls \cup {poll_id}
            /\ options' = [o \in OptionIds |->
                 IF o \in DOMAIN payload
                   THEN [exists |-> TRUE, poll_id |-> poll_id,
                         votes |-> payload[o].votes, votedBy |-> payload[o].votedBy]
                   ELSE options[o]]
            /\ Return(p, "add_poll", "ok")
  /\ UNCHANGED <<db, ghost, settings>>

\* SELECT of the poll, then of each option of the payload; the options found
\* get the payload's votes and votedBy assigned.
update_poll_read(p, poll_id, payload) ==
  /\ frame[p].pc = "idle"
  /\ IF poll_id \notin polls
       THEN Return(p, "update_poll", "not_found")
       ELSE /\ frame' = [frame EXCEPT ![p] =
                 [Idle EXCEPT !.pc = "poll_commit", !.op = "update_poll", !.poll = poll_id,
                              !.payload = [o \in {x \in DOMAIN payload : options[x].exists} |->
                                            [votes |-> payload[o].votes,
                                             votedBy |-> payload[o].votedBy,
                                             old_votes |-> options[o].votes,
                                             old_votedBy |-> options[o].votedBy]]]]
            /\ last' = NoResponse /\ stdout' = NoLine
  /\ UNCHANGED <<db, ghost, elsewhere>>

\* db.commit(): the columns whose assigned value differs from the loaded one.
update_poll_commit(p) ==
  /\ frame[p].pc = "poll_commit"
  /\ LET f == frame[p] IN
     options' = [o \in OptionIds |->
       IF o \in DOMAIN f.payload
         THEN [options[o] EXCEPT
                 !.votes = IF f.payload[o].votes # f.payload[o].old_votes
                             THEN f.payload[o].votes ELSE @,
                 !.votedBy = IF f.payload[o].votedBy # f.payload[o].old_votedBy
                               THEN f.payload[o].votedBy ELSE @]
         ELSE options[o]]
  /\ Return(p, "update_poll", "ok")
  /\ UNCHANGED <<db, ghost, polls, settings>>

\* SELECT of the poll and of the option; a voter already in votedBy gets the
\* poll back, as every other successful vote does.
add_vote_option(p, poll_id, option_id, user_id) ==
  /\ frame[p].pc = "idle"
  /\ IF poll_id \notin polls
       THEN Return(p, "add_vote", "not_found")
       ELSE IF ~(options[option_id].exists /\ options[option_id].poll_id = poll_id)
       THEN Return(p, "add_vote", "not_found")
       ELSE IF Contains(options[option_id].votedBy, user_id)
       THEN Return(p, "add_vote", "ok")
       ELSE /\ frame' = [frame EXCEPT ![p] =
                 [Idle EXCEPT !.pc = "vote_user", !.op = "add_vote", !.poll = poll_id,
                              !.option = option_id, !.user = user_id,
                              !.votes = options[option_id].votes,
                              !.votedBy = options[option_id].votedBy]]
            /\ last' = NoResponse /\ stdout' = NoLine
  /\ UNCHANGED <<db, ghost, elsewhere>>

\* SELECT of the voter; a voter that matches no user is skipped, not refused.
add_vote_user(p) ==
  /\ frame[p].pc = "vote_user"
  /\ frame' = [frame EXCEPT ![p].pc = "vote_commit",
                            ![p].user_found = users[frame[p].user].exists,
                            ![p].before = users[frame[p].user].coins]
  /\ last' = NoResponse /\ stdout' = NoLine
  /\ UNCHANGED <<db, ghost, elsewhere>>

\* db.commit(): votes, votedBy and, for a voter that was found, coins.
add_vote_commit(p) ==
  /\ frame[p].pc = "vote_commit"
  /\ LET f == frame[p] IN
     /\ f.votes + 1 <= MaxVotes
     /\ options' = [options EXCEPT ![f.option].votes = f.votes + 1,
                                   ![f.option].votedBy = Append(f.votedBy, f.user)]
     /\ IF f.user_found
          THEN /\ InRange(f.user, f.before + 1)
               /\ InRange(f.user, ledger[f.user] + 1)
               /\ users' = [users EXCEPT ![f.user].coins = f.before + 1]
               /\ ledger' = [ledger EXCEPT ![f.user] = @ + 1]
          ELSE UNCHANGED <<users, ledger>>
  /\ ReturnLogged(p, "add_vote", "ok",
       IF frame[p].user_found
         THEN {Line("add_vote", frame[p].user, frame[p].before, frame[p].before + 1)}
         ELSE NoLine)
  /\ UNCHANGED <<requests, net, polls, settings>>

\* -------------------------------------------------------------- settings

Digit(d) == CASE d = 0 -> "0" [] d = 1 -> "1" [] d = 2 -> "2" [] d = 3 -> "3" [] d = 4 -> "4"
              [] d = 5 -> "5" [] d = 6 -> "6" [] d = 7 -> "7" [] d = 8 -> "8" [] d = 9 -> "9"

RECURSIVE StrNat(_)
StrNat(n) == IF n < 10 THEN Digit(n) ELSE StrNat(n \div 10) \o Digit(n % 10)

\* str(n) of an int: its decimal text.
str(n) == IF n < 0 THEN "-" \o StrNat(0 - n) ELSE StrNat(n)

\* The integers whose text int() is asked to read back.
IntRange == -20 .. 20

\* int(value) raises ValueError for a text that is no integer.
IsInt(value) == \E n \in IntRange : str(n) = value

int(value) == CHOOSE n \in IntRange : str(n) = value

\* get_setting, then int() with the default for a missing row or a ValueError.
RewardOf(key, default) ==
  IF settings[key] = Absent THEN default
  ELSE IF IsInt(settings[key]) THEN int(settings[key])
  ELSE default

\* set_setting(db, "referralReferrerCoins", ...): committed on its own.
put_referral_rewards_referrer(p, referrerCoins, refereeCoins) ==
  /\ frame[p].pc = "idle"
  /\ settings' = [settings EXCEPT !["referralReferrerCoins"] = str(referrerCoins)]
  /\ frame' = [frame EXCEPT ![p] =
       [Idle EXCEPT !.pc = "rewards_referee", !.op = "put_rewards",
                    !.referee_reward = refereeCoins]]
  /\ last' = NoResponse /\ stdout' = NoLine
  /\ UNCHANGED <<db, ghost, polls, options>>

\* set_setting(db, "referralRefereeCoins", ...): the second commit.
put_referral_rewards_referee(p) ==
  /\ frame[p].pc = "rewards_referee"
  /\ settings' = [settings EXCEPT !["referralRefereeCoins"] = str(frame[p].referee_reward)]
  /\ Return(p, "put_rewards", "ok")
  /\ UNCHANGED <<db, ghost, polls, options>>

\* Coin values are counted in tenths: 5 is 0.5 and 20 is 2.0.
CoinTenths == -30 .. 120

Abs(x) == IF x < 0 THEN 0 - x ELSE x

\* str(x) of a float: sign, integer part, point, decimal.
str_float(x) ==
  (IF x < 0 THEN "-" ELSE "") \o StrNat(Abs(x) \div 10) \o "." \o Digit(Abs(x) % 10)

\* float(value) reads the text of a float and the text of an int alike and
\* raises ValueError for any other text.
FloatsOf(value) ==
  {x \in CoinTenths : \/ str_float(x) = value
                      \/ x % 10 = 0 /\ str(x \div 10) = value}

\* A float: a finite value in tenths, or one of the values that are no
\* real number.
Finite(x) == [kind |-> "finite", tenths |-> x]

NaN == [kind |-> "nan", tenths |-> 0]

Infinity == [kind |-> "inf", tenths |-> 0]

\* float() also reads the texts "nan" and "inf", without a ValueError.
IsFloat(value) == value \in {"nan", "inf"} \/ FloatsOf(value) # {}

float(value) ==
  IF value = "nan" THEN NaN
  ELSE IF value = "inf" THEN Infinity
  ELSE Finite(CHOOSE x \in FloatsOf(value) : TRUE)

\* get_setting(db, key, default): the value of the row, the default without
\* a row.
get_setting(key, default) ==
  IF settings[key] = Absent THEN default ELSE settings[key]

\* GET /settings/coin-value.
get_coin_value(p) ==
  /\ frame[p].pc = "idle"
  /\ LET val == get_setting("coinValueINR", "0")
         coin_val == IF val = None THEN Finite(0)
                     ELSE IF IsFloat(val) THEN float(val)
                     ELSE Finite(0)
     IN last' = [op |-> "get_coin_value", res |-> "ok", coinValueINR |-> coin_val]
  /\ stdout' = NoLine
  /\ UNCHANGED <<db, ghost, frame, polls, options, settings>>

\* PUT /settings/coin-value: set_setting with the text of the float.
put_coin_value(p, coinValueINR) ==
  /\ frame[p].pc = "idle"
  /\ settings' = [settings EXCEPT !["coinValueINR"] = str_float(coinValueINR)]
  /\ last' = [op |-> "put_coin_value", res |-> "ok"]
  /\ stdout' = NoLine
  /\ UNCHANGED <<db, ghost, frame, polls, options>>

\* GET /settings/referral-rewards: the first get_setting and its int().
get_referral_rewards_referrer(p) ==
  /\ frame[p].pc = "idle"
  /\ frame' = [frame EXCEPT ![p] =
       [Idle EXCEPT !.pc = "get_rewards_referee", !.op = "get_referral_rewards",
                    !.referrer_reward = RewardOf("referralReferrerCoins", DefaultReferrerCoins)]]
  /\ last' = NoResponse /\ stdout' = NoLine
  /\ UNCHANGED <<db, ghost, polls, options, settings>>

\* The second get_setting, its int() and the response.
get_referral_rewards_referee(p) ==
  /\ frame[p].pc = "get_rewards_referee"
  /\ frame' = [frame EXCEPT ![p] = Idle]
  /\ stdout' = NoLine
  /\ last' = [op |-> "get_referral_rewards", res |-> "ok",
              referrerCoins |-> frame[p].referrer_reward,
              refereeCoins |-> RewardOf("referralRefereeCoins", DefaultRefereeCoins)]
  /\ UNCHANGED <<db, ghost, polls, options, settings>>

\* -------------------------------------------------------------- referral

\* Variant: a referredBy that is set does not stop a referral.
Truthy_Never(value) == FALSE

\* "if joiner.referredBy:" - NULL and the empty text count as not set.
Truthy(value) == value # None /\ value # ""

\* The users a referral code resolves to (at most one: the column is UNIQUE).
CodeOwners(code) == {u \in UserIds : users[u].exists /\ users[u].referralCode = code}

InReward(u, v) == v - SeedOf(u) >= -MaxReward /\ v - SeedOf(u) <= MaxReward

\* SELECT of the joiner.
apply_referral_joiner(p, joinerUserId, referralCode) ==
  /\ frame[p].pc = "idle"
  /\ IF ~users[joinerUserId].exists
       THEN Return(p, "apply_referral", "not_found")
       ELSE IF Truthy(users[joinerUserId].referredBy)
       THEN Return(p, "apply_referral", "already_applied")
       ELSE /\ frame' = [frame EXCEPT ![p] =
                 [Idle EXCEPT !.pc = "ref_referrer", !.op = "apply_referral",
                              !.user = joinerUserId, !.referralCode = referralCode,
                              !.before = users[joinerUserId].coins,
                              !.old_referredBy = users[joinerUserId].referredBy]]
            /\ last' = NoResponse /\ stdout' = NoLine
  /\ UNCHANGED <<db, ghost, elsewhere>>

\* SELECT of the referrer by referral code.
apply_referral_referrer(p) ==
  /\ frame[p].pc = "ref_referrer"
  /\ LET f == frame[p] IN
     IF CodeOwners(f.referralCode) = {}
       THEN Return(p, "apply_referral", "not_found")
       ELSE LET referrer == CHOOSE u \in CodeOwners(f.referralCode) : TRUE IN
            IF referrer = f.user
              THEN Return(p, "apply_referral", "self_referral")
              ELSE /\ frame' = [frame EXCEPT ![p].pc = "ref_referrer_reward",
                                             ![p].referrer = referrer,
                                             ![p].referrer_before = users[referrer].coins]
                   /\ last' = NoResponse /\ stdout' = NoLine
  /\ UNCHANGED <<db, ghost, elsewhere>>

\* get_referral_rewards: SELECT of the setting referralReferrerCoins.
apply_referral_referrer_reward(p) ==
  /\ frame[p].pc = "ref_referrer_reward"
  /\ frame' = [frame EXCEPT ![p].pc = "ref_referee_reward",
                            ![p].referrer_reward =
                               RewardOf("referralReferrerCoins", DefaultReferrerCoins)]
  /\ last' = NoResponse /\ stdout' = NoLine
  /\ UNCHANGED <<db, ghost, elsewhere>>

\* get_referral_rewards: SELECT of the setting referralRefereeCoins.
apply_referral_referee_reward(p) ==
  /\ frame[p].pc = "ref_referee_reward"
  /\ frame' = [frame EXCEPT ![p].pc = "ref_commit",
                            ![p].referee_reward =
                               RewardOf("referralRefereeCoins", DefaultRefereeCoins)]
  /\ last' = NoResponse /\ stdout' = NoLine
  /\ UNCHANGED <<db, ghost, elsewhere>>

\* Variant: the joiner's row is committed, the referrer's is not.
apply_referral_commit_joiner_only(p) ==
  /\ frame[p].pc = "ref_commit"
  /\ LET f == frame[p] IN
     /\ InReward(f.user, f.before + f.referee_reward)
     /\ users' = [users EXCEPT ![f.user].coins = f.before + f.referee_reward,
                               ![f.user].referredBy = f.referrer]
     /\ ledger' = [ledger EXCEPT ![f.user] = @ + f.referee_reward]
  /\ ReturnLogged(p, "apply_referral", "ok",
       {Line("apply_referral", frame[p].user, frame[p].before,
             users'[frame[p].user].coins),
        Line("apply_referral", frame[p].referrer, frame[p].referrer_before,
             users'[frame[p].referrer].coins)})
  /\ UNCHANGED <<requests, net, elsewhere>>

\* db.commit(): the joiner's coins and referredBy and the referrer's coins in
\* one transaction.
apply_referral_commit(p) ==
  /\ frame[p].pc = "ref_commit"
  /\ LET f == frame[p]
         joiner_after == f.before + f.referee_reward
         referrer_after == f.referrer_before + f.referrer_reward
     IN /\ InReward(f.user, joiner_after) /\ InReward(f.referrer, referrer_after)
        /\ InReward(f.user, ledger[f.user] + f.referee_reward)
        /\ InReward(f.referrer, ledger[f.referrer] + f.referrer_reward)
        /\ users' = [users EXCEPT
             ![f.user].coins = IF joiner_after # f.before THEN joiner_after ELSE @,
             ![f.user].referredBy = IF f.referrer # f.old_referredBy THEN f.referrer ELSE @,
             ![f.referrer].coins = IF referrer_after # f.referrer_before
                                     THEN referrer_after ELSE @]
        /\ ledger' = [ledger EXCEPT ![f.user] = @ + f.referee_reward,
                                    ![f.referrer] = @ + f.referrer_reward]
  /\ ReturnLogged(p, "apply_referral", "ok",
       {Line("apply_referral", frame[p].user, frame[p].before,
             users'[frame[p].user].coins),
        Line("apply_referral", frame[p].referrer, frame[p].referrer_before,
             users'[frame[p].referrer].coins)})
  /\ UNCHANGED <<requests, net, elsewhere>>

\* ------------------------------------------------------------ update_user

\* SELECT of the user; the payload's referralCode and referredBy are assigned,
\* the payload's coins is carried along and never assigned.
update_user_read(p, user_id, coins, referralCode, referredBy) ==
  /\ frame[p].pc = "idle"
  /\ IF ~users[user_id].exists
       THEN Return(p, "update_user", "not_found")
       ELSE /\ frame' = [frame EXCEPT ![p] =
                 [Idle EXCEPT !.pc = "user_commit", !.op = "update_user", !.user = user_id,
                              !.amount = coins, !.before = users[user_id].coins,
                              !.referralCode = referralCode, !.referredBy = referredBy,
                              !.old_referralCode = users[user_id].referralCode,
                              !.old_referredBy = users[user_id].referredBy]]
            /\ last' = NoResponse /\ stdout' = NoLine
  /\ UNCHANGED <<db, ghost, elsewhere>>

\* Variant: the payload's coins is assigned like the other profile fields.
update_user_commit_assigns_coins(p) ==
  /\ frame[p].pc = "user_commit"
  /\ LET f == frame[p] IN
     /\ users' = [users EXCEPT
          ![f.user].coins = IF f.amount # f.before THEN f.amount ELSE @,
          ![f.user].referralCode =
             IF f.referralCode # f.old_referralCode THEN f.referralCode ELSE @,
          ![f.user].referredBy =
             IF f.referredBy # f.old_referredBy THEN f.referredBy ELSE @]
     /\ Return(p, "update_user", "ok")
  /\ UNCHANGED <<requests, ghost, elsewhere>>

\* db.commit(): the columns whose assigned value differs from the loaded one;
\* coins is not among the assigned columns.
update_user_commit(p) ==
  /\ frame[p].pc = "user_commit"
  /\ LET f == frame[p] IN
     IF f.referralCode # f.old_referralCode /\ CodeTaken(f.referralCode, f.user)
       THEN \* the UPDATE hits the unique column: IntegrityError
            /\ Return(p, "update_user", "error")
            /\ UNCHANGED users
       ELSE /\ users' = [users EXCEPT
                 ![f.user].referralCode =
                    IF f.referralCode # f.old_referralCode THEN f.referralCode ELSE @,
                 ![f.user].referredBy =
                    IF f.referredBy # f.old_referredBy THEN f.referredBy ELSE @]
            /\ Return(p, "update_user", "ok")
  /\ UNCHANGED <<requests, ghost, elsewhere>>

\* ------------------------------------------------------------------ ads

\* The calendar day of instant t at UTC+5:30, and at UTC.
LocalDay(t) == (t + ISTOffset) \div HalfHoursPerDay

UtcDay(t) == t \div HalfHoursPerDay

\* strftime("%Y-%m-%d"): one text per calendar day.
strftime(day) == "day-" \o str(day)

\* Variant: the day key is the UTC date.
today_utc_date_str == strftime(UtcDay(clock))

\* datetime.now(IST).strftime("%Y-%m-%d")
today_ist_date_str == strftime(LocalDay(clock))

\* Variant: the amount is granted as sent.
Grant_Unclamped(amount) == amount

\* max(0, int(body.amount or 0))
Grant(amount) == IF amount > 0 THEN amount ELSE 0

\* .filter(user_id == ..., date == ...).first(): the matching row of lowest id,
\* 0 for none.
FirstRow(user_id, date) ==
  LET matching == {i \in 1..Len(ads) : ads[i].user_id = user_id /\ ads[i].date = date}
  IN IF matching = {} THEN 0 ELSE CHOOSE i \in matching : \A j \in matching : i <= j

\* Time passes.
Tick ==
  /\ clock < MaxInstant
  /\ clock' = clock + 1
  /\ stdout' = NoLine
  /\ UNCHANGED <<db, ghost, frame, last, toggle, elsewhere, ads, games>>

\* Variant: a user without a record for today gets an error.
get_ads_stats_strict(p, user_id) ==
  /\ frame[p].pc = "idle"
  /\ LET date_str == today_ist_date_str
         row == FirstRow(user_id, date_str)
     IN last' = IF row = 0
                  THEN [op |-> "get_ads_stats", res |-> "not_found"]
                  ELSE [op |-> "get_ads_stats", res |-> "ok", userId |-> user_id,
                        date |-> ads[row].date, watched |-> ads[row].watched,
                        coins |-> ads[row].coins]
  /\ stdout' = NoLine
  /\ UNCHANGED <<db, ghost, frame, elsewhere, activity>>

\* One SELECT; nothing is written.
get_ads_stats(p, user_id) ==
  /\ frame[p].pc = "idle"
  /\ LET date_str == today_ist_date_str
         row == FirstRow(user_id, date_str)
     IN last' = IF row = 0
                  THEN [op |-> "get_ads_stats", res |-> "ok", userId |-> user_id,
                        date |-> date_str, watched |-> 0, coins |-> 0]
                  ELSE [op |-> "get_ads_stats", res |-> "ok", userId |-> user_id,
                        date |-> ads[row].date, watched |-> ads[row].watched,
                        coins |-> ads[row].coins]
  /\ stdout' = NoLine
  /\ UNCHANGED <<db, ghost, frame, elsewhere, activity>>

\* SELECT of the user; the day key and the grant are fixed here.
post_ads_reward_user(p, userId, amount) ==
  /\ frame[p].pc = "idle"
  /\ IF ~users[userId].exists
       THEN Return(p, "post_ads_reward", "not_found")
       ELSE /\ frame' = [frame EXCEPT ![p] =
                 [Idle EXCEPT !.pc = "ads_row", !.op = "post_ads_reward", !.user = userId,
                              !.before = users[userId].coins,
                              !.date = today_ist_date_str, !.amount = Grant(amount),
                              !.payload = amount]]
            /\ last' = NoResponse /\ stdout' = NoLine
  /\ UNCHANGED <<db, ghost, elsewhere, activity>>

\* SELECT of the day's row of the user.
post_ads_reward_row(p) ==
  /\ frame[p].pc = "ads_row"
  /\ LET row == FirstRow(frame[p].user, frame[p].date) IN
     frame' = [frame EXCEPT ![p].pc = "ads_commit",
                            ![p].row = row,
                            ![p].row_watched = IF row = 0 THEN 0 ELSE ads[row].watched,
                            ![p].row_coins = IF row = 0 THEN 0 ELSE ads[row].coins]
  /\ last' = NoResponse /\ stdout' = NoLine
  /\ UNCHANGED <<db, ghost, elsewhere, activity>>

\* db.commit(): the user's coins and the inserted or updated row in one
\* transaction.
post_ads_reward_commit(p) ==
  /\ frame[p].pc = "ads_commit"
  /\ LET f == frame[p]
         grant == f.amount
         seen == IF grant > 0 THEN 1 ELSE 0
     IN /\ InRange(f.user, f.before + grant)
        /\ InRange(f.user, ledger[f.user] + grant)
        /\ users' = IF grant # 0 THEN [users EXCEPT ![f.user].coins = f.before + grant]
                                 ELSE users
        /\ IF f.row = 0
             THEN /\ Len(ads) < MaxAdsRows
                  /\ ads' = Append(ads, [user_id |-> f.user, date |-> f.date,
                                         watched |-> seen, coins |-> grant])
             ELSE ads' = [ads EXCEPT
                    ![f.row].watched = IF seen # 0 THEN f.row_watched + seen ELSE @,
                    ![f.row].coins = IF grant # 0 THEN f.row_coins + grant ELSE @]
        /\ ledger' = [ledger EXCEPT ![f.user] = @ + grant]
  /\ ReturnLogged(p, "post_ads_reward", "ok",
       {Line("post_ads_reward", frame[p].user, frame[p].before,
             users'[frame[p].user].coins)})
  /\ UNCHANGED <<requests, net, elsewhere, games, clock>>

\* ---------------------------------------------------------- game attempts

\* Time passes between two requests: d half hours.
Sleep(d) ==
  /\ clock + d <= MaxWaitInstant
  /\ clock' = clock + d
  /\ stdout' = NoLine
  /\ UNCHANGED <<db, ghost, frame, last, toggle, elsewhere, ads, games>>

\* POST /users/{user_id}/attempt: SELECT of the user.
use_game_attempt_read(p, user_id) ==
  /\ frame[p].pc = "idle"
  /\ IF ~users[user_id].exists
       THEN Return(p, "use_game_attempt", "not_found")
       ELSE /\ frame' = [frame EXCEPT ![p] =
                 [Idle EXCEPT !.pc = "attempt_commit", !.op = "use_game_attempt",
                              !.user = user_id,
                              !.dailyAttempts = users[user_id].dailyAttempts]]
            /\ last' = NoResponse /\ stdout' = NoLine
  /\ UNCHANGED <<db, ghost, elsewhere, activity>>

\* dailyAttempts -= 1, lastAttemptDate = now, db.commit().
use_game_attempt_commit(p) ==
  /\ frame[p].pc = "attempt_commit"
  /\ LET f == frame[p] IN
     /\ f.dailyAttempts - 1 >= -MaxOverdraw
     /\ users' = [users EXCEPT ![f.user].dailyAttempts = f.dailyAttempts - 1,
                               ![f.user].lastAttemptDate = clock]
  /\ Return(p, "use_game_attempt", "ok")
  /\ UNCHANGED <<requests, ghost, elsewhere, activity>>

\* timedelta.days of now - lastAttemptDate: the whole days elapsed.
DaysSince(lastAttemptDate) == (clock - lastAttemptDate) \div HalfHoursPerDay

\* POST /users/{user_id}/refresh-attempts: SELECT of the user.
refresh_user_attempts_read(p, user_id) ==
  /\ frame[p].pc = "idle"
  /\ IF ~users[user_id].exists
       THEN Return(p, "refresh_user_attempts", "not_found")
       ELSE /\ frame' = [frame EXCEPT ![p] =
                 [Idle EXCEPT !.pc = "refresh_commit", !.op = "refresh_user_attempts",
                              !.user = user_id,
                              !.dailyAttempts = users[user_id].dailyAttempts,
                              !.lastAttemptDate = users[user_id].lastAttemptDate]]
            /\ last' = NoResponse /\ stdout' = NoLine
  /\ UNCHANGED <<db, ghost, elsewhere, activity>>

\* The subtraction of the stored lastAttemptDate from datetime.now(IST) and
\* the commit.  The subtraction raises TypeError when the value read back
\* carries no timezone, as the DateTime column of SQLite returns it; both
\* outcomes are followed.
refresh_user_attempts_commit(p) ==
  /\ frame[p].pc = "refresh_commit"
  /\ LET f == frame[p] IN
     \/ /\ Return(p, "refresh_user_attempts", "error")
        /\ UNCHANGED users
     \/ /\ users' = IF DaysSince(f.lastAttemptDate) >= 1
                       THEN [users EXCEPT ![f.user].dailyAttempts = DefaultAttempts,
                                          ![f.user].lastAttemptDate = clock]
                       ELSE users
        /\ Return(p, "refresh_user_attempts", "ok")
  /\ UNCHANGED <<requests, ghost, elsewhere, activity>>

\* ------------------------------------------------------------ game results

\* POST /game-results: the GameResultDB is added to the session; the user is
\* queried only for coinsWon > 0.
save_game_result_user(p, id, user_id, coinsWon) ==
  /\ frame[p].pc = "idle"
  /\ frame' = [frame EXCEPT ![p] =
       [Idle EXCEPT !.pc = "game_commit", !.op = "save_game_result",
                    !.game = id, !.user = user_id, !.amount = coinsWon,
                    !.user_found = coinsWon > 0 /\ users[user_id].exists,
                    !.before = IF coinsWon > 0 /\ users[user_id].exists
                               THEN users[user_id].coins ELSE 0]]
  /\ last' = NoResponse /\ stdout' = NoLine
  /\ UNCHANGED <<db, ghost, elsewhere, activity>>

\* db.commit(): the INSERT fails on a primary key that is taken and nothing
\* is written; otherwise the row and the balance are written together.
save_game_result_commit(p) ==
  LET f == frame[p]
  IN /\ f.pc = "game_commit"
     /\ IF games[f.game].exists
          THEN /\ ReturnLogged(p, "save_game_result", "error",
                    IF f.user_found
                      THEN {Line("save_game_result", f.user, f.before, f.before + f.amount)}
                      ELSE NoLine)
               /\ UNCHANGED <<db, ghost, activity>>
          ELSE /\ f.user_found => InRange(f.user, f.before + f.amount)
               /\ games' = [games EXCEPT ![f.game] =
                    [exists |-> TRUE, user_id |-> f.user, coinsWon |-> f.amount]]
               /\ IF f.user_found
                    THEN /\ users' = [users EXCEPT ![f.user].coins = f.before + f.amount]
                         /\ ledger' = [ledger EXCEPT ![f.user] = @ + f.amount]
                    ELSE UNCHANGED <<users, ledger>>
               /\ ReturnLogged(p, "save_game_result", "ok",
                    IF f.user_found
                      THEN {Line("save_game_result", f.user, f.before, f.before + f.amount)}
                      ELSE NoLine)
               /\ UNCHANGED <<requests, net, ads, clock>>
     /\ UNCHANGED elsewhere

\* -------------------------------------------------------------- observer

\* Follows one request through pending -> processed -> pending -> processed, each
\* change made by update_redemption_request_status with nothing else answered in
\* between.  phase counts the changes answered so far, base is the owner's balance
\* before the first, failed records a change of the sequence that was refused.
\* The step observed is the one in which the handler of thread p answers.
Observe(p) ==
  LET f == frame[p]
      new_status == GetOr(f.new_status, f.old_status)
      refused == last'.res # "ok"
      continues ==
        /\ f.op = "update" /\ f.req = toggle.req /\ ~toggle.failed
        /\ \/ toggle.phase = 1 /\ f.new_status = "pending"
           \/ toggle.phase = 2 /\ f.new_status = "processed"
      starts ==
        /\ f.op = "update" /\ f.old_status = "pending" /\ f.new_status = "processed"
        /\ users[f.user].exists /\ users[f.user].coins >= f.amount
  IN toggle' =
       IF last' = NoResponse THEN toggle
       ELSE IF continues THEN [toggle EXCEPT !.phase = @ + 1, !.failed = refused]
       ELSE IF starts
         THEN [phase |-> 1, req |-> f.req, base |-> users[f.user].coins, failed |-> refused]
       ELSE NoToggle

\* ------------------------------------------------------- specifications

SignupCoins == {-1, 0, 2}
Amounts == {1, 2}
RequestAmounts == {-1, 1, 2}
SeqReqIds == {"r1"}
SeqUsers == {AdminId, "u1"}

\* Requests handled one at a time: the thread SeqProc runs each handler to its end.
SeqNext ==
  \/ \E u \in SeqUsers, c \in SignupCoins :
       signup_read(SeqProc, u, c, None, None) /\ Observe(SeqProc) /\ UNCHANGED <<elsewhere, activity>>
  \/ signup_commit(SeqProc) /\ Observe(SeqProc) /\ UNCHANGED <<elsewhere, activity>>
  \/ \E u \in SeqUsers, a \in Amounts :
       increment_user_coins_read(SeqProc, u, a) /\ Observe(SeqProc) /\ UNCHANGED <<elsewhere, activity>>
  \/ increment_user_coins_commit(SeqProc) /\ Observe(SeqProc) /\ UNCHANGED <<elsewhere, activity>>
  \/ \E u \in SeqUsers, a \in Amounts :
       decrement_user_coins_read(SeqProc, u, a) /\ Observe(SeqProc) /\ UNCHANGED <<elsewhere, activity>>
  \/ decrement_user_coins_commit(SeqProc) /\ Observe(SeqProc) /\ UNCHANGED <<elsewhere, activity>>
  \/ \E r \in SeqReqIds, u \in SeqUsers, a \in RequestAmounts, s \in Statuses :
       add_redemption_request(SeqProc, r, u, a, s, NoNotes, NoTime) /\ Observe(SeqProc) /\ UNCHANGED <<elsewhere, activity>>
  \/ \E r \in SeqReqIds, s \in Statuses \cup {Absent}, n \in {Absent, "n1"} :
       update_redemption_request_status_load(SeqProc, r, s, n) /\ Observe(SeqProc) /\ UNCHANGED <<elsewhere, activity>>
  \/ update_redemption_request_status_user(SeqProc) /\ Observe(SeqProc) /\ UNCHANGED <<elsewhere, activity>>
  \/ \E t \in Times :
       update_redemption_request_status_commit(SeqProc, t) /\ Observe(SeqProc) /\ UNCHANGED <<elsewhere, activity>>

SeqSpec == Init /\ [][SeqNext]_vars

\* Requests handled concurrently, one thread per request in flight.  The
\* observer of the sequential status sequence stays off.
ConcUsers == {"u1"}
ConcSignupCoins == {2}
ConcAmounts == {1}
ConcRequestAmounts == {2}
ConcStatuses == Statuses

Next ==
  \E p \in Procs :
    \/ \E u \in ConcUsers, c \in ConcSignupCoins :
         signup_read(p, u, c, None, None) /\ UNCHANGED <<toggle, elsewhere, activity>>
    \/ signup_commit(p) /\ UNCHANGED <<toggle, elsewhere, activity>>
    \/ \E u \in ConcUsers, a \in ConcAmounts :
         increment_user_coins_read(p, u, a) /\ UNCHANGED <<toggle, elsewhere, activity>>
    \/ increment_user_coins_commit(p) /\ UNCHANGED <<toggle, elsewhere, activity>>
    \/ \E u \in ConcUsers, a \in ConcAmounts :
         decrement_user_coins_read(p, u, a) /\ UNCHANGED <<toggle, elsewhere, activity>>
    \/ decrement_user_coins_commit(p) /\ UNCHANGED <<toggle, elsewhere, activity>>
    \/ \E r \in SeqReqIds, u \in ConcUsers, a \in ConcRequestAmounts :
         add_redemption_request(p, r, u, a, "pending", NoNotes, NoTime) /\ UNCHANGED <<toggle, elsewhere, activity>>
    \/ \E r \in SeqReqIds, s \in ConcStatuses :
         update_redemption_request_status_load(p, r, s, Absent) /\ UNCHANGED <<toggle, elsewhere, activity>>
    \/ update_redemption_request_status_user(p) /\ UNCHANGED <<toggle, elsewhere, activity>>
    \/ \E t \in Times :
         update_redemption_request_status_commit(p, t) /\ UNCHANGED <<toggle, elsewhere, activity>>
    \/ commit_fails(p) /\ UNCHANGED <<toggle, elsewhere, activity>>

Spec == Init /\ [][Next]_vars

\* Concurrent approvals of different requests: users sign up, requests are
\* created 'pending', every status change asks for 'processed', and each thread
\* approves a request of its own.
ApproveUsers == {"u1"}
ApproveAmounts == {1, 2}
ApproveTarget(p) == IF p = "p1" THEN "r1" ELSE "r2"

ApproveNext ==
  \E p \in Procs :
    \/ \E u \in ApproveUsers, c \in ConcSignupCoins :
         signup_read(p, u, c, None, None) /\ UNCHANGED <<toggle, elsewhere, activity>>
    \/ signup_commit(p) /\ UNCHANGED <<toggle, elsewhere, activity>>
    \/ \E r \in ReqIds, u \in ApproveUsers, a \in ApproveAmounts :
         add_redemption_request(p, r, u, a, "pending", NoNotes, NoTime) /\ UNCHANGED <<toggle, elsewhere, activity>>
    \/ update_redemption_request_status_load(p, ApproveTarget(p), "processed", Absent)
         /\ UNCHANGED <<toggle, elsewhere, activity>>
    \/ update_redemption_request_status_user(p) /\ UNCHANGED <<toggle, elsewhere, activity>>
    \/ \E t \in Times :
         update_redemption_request_status_commit(p, t) /\ UNCHANGED <<toggle, elsewhere, activity>>
    \/ commit_fails(p) /\ UNCHANGED <<toggle, elsewhere, activity>>

ApproveSpec == Init /\ [][ApproveNext]_vars

\* Concurrent approvals of one request: the request of the admin is created
\* 'pending' and both threads ask for 'processed' on it.
SameRequestOwner == AdminId
SameRequest == "r1"

SameRequestNext ==
  \E p \in Procs :
    \/ \E a \in ApproveAmounts :
         add_redemption_request(p, SameRequest, SameRequestOwner, a, "pending", NoNotes, NoTime)
           /\ UNCHANGED <<toggle, elsewhere, activity>>
    \/ update_redemption_request_status_load(p, SameRequest, "processed", Absent)
         /\ UNCHANGED <<toggle, elsewhere, activity>>
    \/ update_redemption_request_status_user(p) /\ UNCHANGED <<toggle, elsewhere, activity>>
    \/ \E t \in Times :
         update_redemption_request_status_commit(p, t) /\ UNCHANGED <<toggle, elsewhere, activity>>
    \/ commit_fails(p) /\ UNCHANGED <<toggle, elsewhere, activity>>

SameRequestSpec == Init /\ [][SameRequestNext]_vars

\* Polls and votes, one request at a time.  The payload of add_poll and of
\* update_poll carries votes and votedBy for each option.
PayloadVotes == {0, 1}
PayloadVoters == {<<>>, <<AdminId>>}
PollPayloads == [OptionIds -> [votes : PayloadVotes, votedBy : PayloadVoters]]
Voters == {AdminId, "u1"}

VoteSeqNext ==
  \/ \E q \in PollIds, d \in PollPayloads :
       add_poll(SeqProc, q, d) /\ UNCHANGED <<toggle, activity>>
  \/ \E q \in PollIds, d \in PollPayloads :
       update_poll_read(SeqProc, q, d) /\ UNCHANGED <<toggle, activity>>
  \/ update_poll_commit(SeqProc) /\ UNCHANGED <<toggle, activity>>
  \/ \E q \in PollIds, o \in OptionIds, u \in Voters :
       add_vote_option(SeqProc, q, o, u) /\ UNCHANGED <<toggle, activity>>
  \/ add_vote_user(SeqProc) /\ UNCHANGED <<toggle, activity>>
  \/ add_vote_commit(SeqProc) /\ UNCHANGED <<toggle, activity>>

VoteSeqSpec == Init /\ [][VoteSeqNext]_vars

\* Concurrent votes on a poll created with no votes.
NewPoll == [o \in OptionIds |-> [votes |-> 0, votedBy |-> <<>>]]
ConcVoters == {AdminId}

VoteNext ==
  \E p \in Procs :
    \/ \E q \in PollIds : add_poll(p, q, NewPoll) /\ UNCHANGED <<toggle, activity>>
    \/ \E q \in PollIds, o \in OptionIds, u \in ConcVoters :
         add_vote_option(p, q, o, u) /\ UNCHANGED <<toggle, activity>>
    \/ add_vote_user(p) /\ UNCHANGED <<toggle, activity>>
    \/ add_vote_commit(p) /\ UNCHANGED <<toggle, activity>>
    \/ commit_fails(p) /\ UNCHANGED <<toggle, elsewhere, activity>>

VoteSpec == Init /\ [][VoteNext]_vars

\* Referrals, one request at a time: users sign up with a referral code, the
\* reward policy is written, profiles are updated and referral codes applied.
Codes == {"c1", "c2"}
RefSignupUsers == {"u1", "u2"}
RefSignupCoins == {0}
RewardInputs == {<<2, 1>>}
ProfileCodes == {None, "c1"}
ProfileReferredBy == {None, "u2", AdminId}
ProfileUsers == RefSignupUsers

ReferralSeqNext ==
  \/ \E u \in RefSignupUsers, c \in RefSignupCoins, code \in Codes :
       signup_read(SeqProc, u, c, code, None) /\ UNCHANGED <<toggle, elsewhere, activity>>
  \/ signup_commit(SeqProc) /\ UNCHANGED <<toggle, elsewhere, activity>>
  \/ \E r \in RewardInputs :
       put_referral_rewards_referrer(SeqProc, r[1], r[2]) /\ UNCHANGED <<toggle, activity>>
  \/ put_referral_rewards_referee(SeqProc) /\ UNCHANGED <<toggle, activity>>
  \/ \E u \in RefSignupUsers, code \in Codes :
       apply_referral_joiner(SeqProc, u, code) /\ UNCHANGED <<toggle, activity>>
  \/ apply_referral_referrer(SeqProc) /\ UNCHANGED <<toggle, activity>>
  \/ apply_referral_referrer_reward(SeqProc) /\ UNCHANGED <<toggle, activity>>
  \/ apply_referral_referee_reward(SeqProc) /\ UNCHANGED <<toggle, activity>>
  \/ apply_referral_commit(SeqProc) /\ UNCHANGED <<toggle, activity>>
  \/ \E u \in ProfileUsers, code \in ProfileCodes, r \in ProfileReferredBy :
       update_user_read(SeqProc, u, 0, code, r) /\ UNCHANGED <<toggle, activity>>
  \/ update_user_commit(SeqProc) /\ UNCHANGED <<toggle, activity>>
  \/ commit_fails(SeqProc) /\ UNCHANGED <<toggle, elsewhere, activity>>

ReferralSeqSpec == Init /\ [][ReferralSeqNext]_vars

\* Concurrent referrals: u1 and u2 sign up with a code each, the reward policy
\* is written, and the code of u2 is applied for the joiner u1 by every thread.
CodeOfUser(u) == IF u = "u1" THEN "c1" ELSE "c2"
ConcJoiners == {"u1"}
ConcCodes == {"c2"}

ReferralNext ==
  \E p \in Procs :
    \/ \E u \in RefSignupUsers, c \in RefSignupCoins :
         signup_read(p, u, c, CodeOfUser(u), None) /\ UNCHANGED <<toggle, elsewhere, activity>>
    \/ signup_commit(p) /\ UNCHANGED <<toggle, elsewhere, activity>>
    \/ \E r \in RewardInputs :
         put_referral_rewards_referrer(p, r[1], r[2]) /\ UNCHANGED <<toggle, activity>>
    \/ put_referral_rewards_referee(p) /\ UNCHANGED <<toggle, activity>>
    \/ \E u \in ConcJoiners, code \in ConcCodes :
         apply_referral_joiner(p, u, code) /\ UNCHANGED <<toggle, activity>>
    \/ apply_referral_referrer(p) /\ UNCHANGED <<toggle, activity>>
    \/ apply_referral_referrer_reward(p) /\ UNCHANGED <<toggle, activity>>
    \/ apply_referral_referee_reward(p) /\ UNCHANGED <<toggle, activity>>
    \/ apply_referral_commit(p) /\ UNCHANGED <<toggle, activity>>
    \/ commit_fails(p) /\ UNCHANGED <<toggle, elsewhere, activity>>

ReferralSpec == Init /\ [][ReferralNext]_vars

\* Profile updates concurrent with balance adjustments of the same user.
ProfileCoins == {0, AdminSeedCoins + 1}
ConcProfileUsers == {AdminId}
ConcProfileReferredBy == {None, "u2"}

ProfileNext ==
  \E p \in Procs :
    \/ \E u \in ConcProfileUsers, a \in ConcAmounts :
         increment_user_coins_read(p, u, a) /\ UNCHANGED <<toggle, elsewhere, activity>>
    \/ increment_user_coins_commit(p) /\ UNCHANGED <<toggle, elsewhere, activity>>
    \/ \E u \in ConcProfileUsers, a \in ConcAmounts :
         decrement_user_coins_read(p, u, a) /\ UNCHANGED <<toggle, elsewhere, activity>>
    \/ decrement_user_coins_commit(p) /\ UNCHANGED <<toggle, elsewhere, activity>>
    \/ \E u \in ConcProfileUsers, c \in ProfileCoins, r \in ConcProfileReferredBy :
         update_user_read(p, u, c, None, r) /\ UNCHANGED <<toggle, activity>>
    \/ update_user_commit(p) /\ UNCHANGED <<toggle, activity>>
    \/ commit_fails(p) /\ UNCHANGED <<toggle, elsewhere, activity>>

ProfileSpec == Init /\ [][ProfileNext]_vars

\* Ad rewards, one request at a time, over local midnight.
AdsUsers == {AdminId, "u1"}
AdsAmounts == {-1, 0, 1, 2}

AdsSeqNext ==
  \/ \E u \in AdsUsers, a \in AdsAmounts :
       post_ads_reward_user(SeqProc, u, a) /\ UNCHANGED toggle
  \/ post_ads_reward_row(SeqProc) /\ UNCHANGED toggle
  \/ post_ads_reward_commit(SeqProc) /\ UNCHANGED toggle
  \/ \E u \in AdsUsers : get_ads_stats(SeqProc, u) /\ UNCHANGED toggle
  \/ commit_fails(SeqProc) /\ UNCHANGED <<toggle, elsewhere, activity>>
  \/ Tick

AdsSeqSpec == Init /\ [][AdsSeqNext]_vars

\* Concurrent ad rewards of one user.
ConcAdsUsers == {AdminId}
ConcAdsAmounts == {1}

AdsNext ==
  \/ \E p \in Procs :
       \/ \E u \in ConcAdsUsers, a \in ConcAdsAmounts :
            post_ads_reward_user(p, u, a) /\ UNCHANGED toggle
       \/ post_ads_reward_row(p) /\ UNCHANGED toggle
       \/ post_ads_reward_commit(p) /\ UNCHANGED toggle
       \/ commit_fails(p) /\ UNCHANGED <<toggle, elsewhere, activity>>
  \/ Tick

AdsSpec == Init /\ [][AdsNext]_vars

\* The reads of the reward policy, over every kind of stored value: no row,
\* a NULL value, texts that are no number, texts of floats and of integers.
StoredValues == {Absent, None, "", "abc", "nan", "inf", "1.5", "7", "-3", "12"}

CoinInputs == {5, 20}

SettingsInit ==
  /\ users = [u \in UserIds |->
               IF u = AdminId THEN [NoUserRow EXCEPT !.exists = TRUE, !.coins = AdminSeedCoins]
                              ELSE NoUserRow]
  /\ requests = [r \in ReqIds |-> NoRow]
  /\ frame = [p \in Procs |-> Idle]
  /\ last = NoResponse
  /\ ledger = [u \in UserIds |-> SeedOf(u)]
  /\ net = [r \in ReqIds |-> 0]
  /\ toggle = NoToggle
  /\ polls = {}
  /\ options = [o \in OptionIds |-> NoOptionRow]
  /\ settings \in [SettingKeys -> StoredValues]
  /\ ads = <<>>
  /\ games = [g \in GameIds |-> NoGameRow]
  /\ clock = StartInstant
  /\ stdout = NoLine

SettingsNext ==
  \/ get_coin_value(SeqProc) /\ UNCHANGED <<toggle, activity>>
  \/ \E x \in CoinInputs :
       put_coin_value(SeqProc, x) /\ UNCHANGED <<toggle, activity>>
  \/ get_referral_rewards_referrer(SeqProc) /\ UNCHANGED <<toggle, activity>>
  \/ get_referral_rewards_referee(SeqProc) /\ UNCHANGED <<toggle, activity>>
  \/ \E r \in RewardInputs :
       put_referral_rewards_referrer(SeqProc, r[1], r[2]) /\ UNCHANGED <<toggle, activity>>
  \/ put_referral_rewards_referee(SeqProc) /\ UNCHANGED <<toggle, activity>>

SettingsSpec == SettingsInit /\ [][SettingsNext]_vars

\* Game results of the admin and of a user id without a row, one at a time.
GameUsers == {AdminId, "u1"}

GameCoins == {-1, 0, 1, 2}

GameSeqNext ==
  \/ \E g \in GameIds, u \in GameUsers, c \in GameCoins :
       save_game_result_user(SeqProc, g, u, c) /\ UNCHANGED toggle
  \/ save_game_result_commit(SeqProc) /\ UNCHANGED toggle
  \/ commit_fails(SeqProc) /\ UNCHANGED <<toggle, elsewhere, activity>>

GameSeqSpec == Init /\ [][GameSeqNext]_vars

\* The end-to-end scenario: the operations of one user who signs up with no
\* coins, votes, watches an ad for ScenarioReward coins and asks to redeem
\* ScenarioAmount coins, and of the admin who settles the request; one
\* request at a time, in any order.
ScenarioReward == 5
ScenarioAmount == 6
ScenarioReq == "r1"
ScenarioStatuses == {"processed", "rejected"}

ScenarioNext ==
  \/ signup_read(SeqProc, ScenarioUser, 0, None, None)
       /\ UNCHANGED <<toggle, elsewhere, activity>>
  \/ signup_commit(SeqProc) /\ UNCHANGED <<toggle, elsewhere, activity>>
  \/ \E q \in PollIds : add_poll(SeqProc, q, NewPoll) /\ UNCHANGED <<toggle, activity>>
  \/ \E q \in PollIds, o \in OptionIds :
       add_vote_option(SeqProc, q, o, ScenarioUser) /\ UNCHANGED <<toggle, activity>>
  \/ add_vote_user(SeqProc) /\ UNCHANGED <<toggle, activity>>
  \/ add_vote_commit(SeqProc) /\ UNCHANGED <<toggle, activity>>
  \/ post_ads_reward_user(SeqProc, ScenarioUser, ScenarioReward) /\ UNCHANGED toggle
  \/ post_ads_reward_row(SeqProc) /\ UNCHANGED toggle
  \/ post_ads_reward_commit(SeqProc) /\ UNCHANGED toggle
  \/ get_ads_stats(SeqProc, ScenarioUser) /\ UNCHANGED toggle
  \/ add_redemption_request(SeqProc, ScenarioReq, ScenarioUser, ScenarioAmount,
                            "pending", NoNotes, NoTime)
       /\ UNCHANGED <<toggle, elsewhere, activity>>
  \/ \E st \in ScenarioStatuses :
       update_redemption_request_status_load(SeqProc, ScenarioReq, st, Absent)
         /\ UNCHANGED <<toggle, elsewhere, activity>>
  \/ update_redemption_request_status_user(SeqProc)
       /\ UNCHANGED <<toggle, elsewhere, activity>>
  \/ \E t \in Times :
       update_redemption_request_status_commit(SeqProc, t)
         /\ UNCHANGED <<toggle, elsewhere, activity>>

ScenarioSpec == Init /\ [][ScenarioNext]_vars

\* Game attempts of the admin and of a user id without a row, one request
\* at a time, with waits of a half hour and of a half hour less than a day.
AttemptUsers == {AdminId, "u1"}
Waits == {1, HalfHoursPerDay - 1}

AttemptsNext ==
  \/ \E u \in AttemptUsers :
       use_game_attempt_read(SeqProc, u) /\ UNCHANGED toggle
  \/ use_game_attempt_commit(SeqProc) /\ UNCHANGED toggle
  \/ \E u \in AttemptUsers :
       refresh_user_attempts_read(SeqProc, u) /\ UNCHANGED toggle
  \/ refresh_user_attempts_commit(SeqProc) /\ UNCHANGED toggle
  \/ commit_fails(SeqProc) /\ UNCHANGED <<toggle, elsewhere, activity>>
  \/ \E d \in Waits : Sleep(d)

AttemptsSpec == Init /\ [][AttemptsNext]_vars

\* Every ledger operation on one user, the admin, from two threads.  A
\* thread that is idle may start a handler; a thread inside a handler takes
\* the handler's next statement.  Requests arrive while the user's balance is
\* the seeded one, so that every pair of handlers is explored from the states
\* the preparing requests (sign-up of the referrer, poll, redemption request)
\* lead to; the ad rewards are the first ones of the day.
LedgerStart(p) ==
  /\ users[AdminId].coins = SeedOf(AdminId) /\ ledger[AdminId] = SeedOf(AdminId)
  /\ \/ signup_read(p, "u1", 0, CodeOfUser("u1"), None)
          /\ UNCHANGED <<toggle, elsewhere, activity>>
     \/ \E q \in PollIds : add_poll(p, q, NewPoll) /\ UNCHANGED <<toggle, activity>>
     \/ \E q \in PollIds :
          add_vote_option(p, q, "o1", AdminId) /\ UNCHANGED <<toggle, activity>>
     \/ ads = <<>> /\ post_ads_reward_user(p, AdminId, 1) /\ UNCHANGED toggle
     \/ apply_referral_joiner(p, AdminId, CodeOfUser("u1"))
          /\ UNCHANGED <<toggle, activity>>
     \/ save_game_result_user(p, "g1", AdminId, 1) /\ UNCHANGED toggle
     \/ increment_user_coins_read(p, AdminId, 1)
          /\ UNCHANGED <<toggle, elsewhere, activity>>
     \/ decrement_user_coins_read(p, AdminId, 1)
          /\ UNCHANGED <<toggle, elsewhere, activity>>
     \/ add_redemption_request(p, "r1", AdminId, 1, "pending", NoNotes, NoTime)
          /\ UNCHANGED <<toggle, elsewhere, activity>>
     \/ \E st \in {"processed", "pending"} :
          update_redemption_request_status_load(p, "r1", st, Absent)
            /\ UNCHANGED <<toggle, elsewhere, activity>>

LedgerContinue(p) ==
  \/ signup_commit(p) /\ UNCHANGED <<toggle, elsewhere, activity>>
  \/ add_vote_user(p) /\ UNCHANGED <<toggle, activity>>
  \/ add_vote_commit(p) /\ UNCHANGED <<toggle, activity>>
  \/ post_ads_reward_row(p) /\ UNCHANGED toggle
  \/ post_ads_reward_commit(p) /\ UNCHANGED toggle
  \/ apply_referral_referrer(p) /\ UNCHANGED <<toggle, activity>>
  \/ apply_referral_referrer_reward(p) /\ UNCHANGED <<toggle, activity>>
  \/ apply_referral_referee_reward(p) /\ UNCHANGED <<toggle, activity>>
  \/ apply_referral_commit(p) /\ UNCHANGED <<toggle, activity>>
  \/ save_game_result_commit(p) /\ UNCHANGED toggle
  \/ increment_user_coins_commit(p) /\ UNCHANGED <<toggle, elsewhere, activity>>
  \/ decrement_user_coins_commit(p) /\ UNCHANGED <<toggle, elsewhere, activity>>
  \/ update_redemption_request_status_user(p) /\ UNCHANGED <<toggle, elsewhere, activity>>
  \/ update_redemption_request_status_commit(p, 1)
       /\ UNCHANGED <<toggle, elsewhere, activity>>
  \/ commit_fails(p) /\ UNCHANGED <<toggle, elsewhere, activity>>

LedgerNext == \E p \in Procs : LedgerStart(p) \/ LedgerContinue(p)

\* Each worker thread that is inside a handler is scheduled again.
LedgerFairness == \A p \in Procs : WF_vars(LedgerContinue(p))

LiveSpec == Init /\ [][LedgerNext]_vars /\ LedgerFairness

\* ---------------------------------------------------------------- helpers

RECURSIVE Sum(_, _)
Sum(f, S) == IF S = {} THEN 0
             ELSE LET x == CHOOSE y \in S : TRUE IN f[x] + Sum(f, S \ {x})

Quiescent == \A p \in Procs : frame[p].pc = "idle"

OwnedBy(u) == {r \in ReqIds : requests[r].exists /\ requests[r].user_id = u}

\* The sum of the amounts of u's requests stored as 'processed'.
ProcessedSum(u) ==
  Sum([r \in ReqIds |-> requests[r].amount],
      {r \in OwnedBy(u) : requests[r].status = "processed"})

\* The balance u had before the approvals: what the answered handlers account
\* for, with their debits added back.
BalanceBeforeApprovals(u) == ledger[u] + Sum(net, OwnedBy(u))

\* How often user_id occurs in the list votedBy.
Occurrences(votedBy, user_id) ==
  Cardinality({i \in 1..Len(votedBy) : votedBy[i] = user_id})

\* The options whose voter list holds u.
VotedOptions(u) ==
  {o \in OptionIds : options[o].exists /\ Contains(options[o].votedBy, u)}

\* The rows of ads_stats of user u, and the coins they add up to.
AdsRowsOf(u) == {i \in 1..Len(ads) : ads[i].user_id = u}

AdsCoinsOf(u) == Sum([i \in 1..Len(ads) |-> ads[i].coins], AdsRowsOf(u))

\* The coins of the first row of (u, date) in the table t, 0 without one.
DayCoins(t, u, date) ==
  LET matching == {i \in 1..Len(t) : t[i].user_id = u /\ t[i].date = date}
  IN IF matching = {} THEN 0
     ELSE t[CHOOSE i \in matching : \A j \in matching : i <= j].coins

\* The stored game results of user u, and the coinsWon they add up to.
GamesOf(u) == {g \in GameIds : games[g].exists /\ games[g].user_id = u}

GameCoinsOf(u) == Sum([g \in GameIds |-> games[g].coinsWon], GamesOf(u))

\* ----------------------------------------------------------------- claims

\* C2: in every reachable state every user's coin balance is non-negative.
C2_BalanceNonNegative ==
  \A u \in UserIds : users[u].exists => users[u].coins >= 0

\* C3: for every request, the amount debited for it minus the amount refunded
\* for it is the request's amount while it is 'processed' and 0 otherwise.
C3_NetDebitFollowsStatus ==
  \A r \in ReqIds :
    requests[r].exists =>
      net[r] = IF requests[r].status = "processed" THEN requests[r].amount ELSE 0

\* C4: pending -> processed -> pending -> processed on a request of amount a
\* whose owner holds b >= a is answered with success at each change and leaves
\* the owner's balance at b - a, b, b - a.
C4_ToggleBalances ==
  toggle.phase > 0 =>
    /\ ~toggle.failed
    /\ users[requests[toggle.req].user_id].coins =
         IF toggle.phase = 2 THEN toggle.base
                             ELSE toggle.base - requests[toggle.req].amount

C4_Witness ==
  /\ toggle.phase = 3
  /\ requests[toggle.req].amount = 2
  /\ toggle.base = 2
  /\ users[requests[toggle.req].user_id].coins = 0

\* The handler thread p is in update_redemption_request_status, about to approve
\* request r (new status 'processed', stored status not 'processed') of an
\* existing owner.
Approving(p, r) ==
  /\ frame[p].op = "update" /\ frame[p].req = r
  /\ GetOr(frame[p].new_status, requests[r].status) = "processed"
  /\ requests[r].status # "processed"
  /\ users[requests[r].user_id].exists

\* C5: approving a request whose owner holds less than its amount is answered
\* with the insufficient-funds error and changes neither a balance nor the
\* request's status, adminNotes and updatedAt.
C5_InsufficientLeavesAll ==
  [][\A p \in Procs, r \in ReqIds :
       (/\ Approving(p, r)
        /\ users[requests[r].user_id].coins < requests[r].amount
        /\ frame'[p] # frame[p])
       => /\ last' = [op |-> "update", res |-> "insufficient"]
          /\ users' = users
          /\ requests' = requests]_vars

C5_Witness ==
  /\ last = [op |-> "update", res |-> "insufficient"]
  /\ \E r \in ReqIds :
       /\ requests[r].exists /\ requests[r].status = "pending"
       /\ requests[r].amount = 2 /\ requests[r].updatedAt = NoTime
       /\ users[requests[r].user_id].exists
       /\ users[requests[r].user_id].coins = 1

\* C8: a request created by add_redemption_request starts 'pending', and no
\* request is stored 'processed' without its amount having been debited.
C8_CreatedPending ==
  [][\A r \in ReqIds :
       /\ (~requests[r].exists /\ requests'[r].exists) => requests'[r].status = "pending"
       /\ (requests'[r].exists /\ requests'[r].status = "processed")
            => net'[r] = requests'[r].amount]_vars

\* C9: add_redemption_request checks no balance and changes none: with an unused
\* id it is answered with success for every amount, also one above the owner's
\* balance, and it leaves every balance as it was.
C9_CreateIgnoresBalance ==
  /\ [](\A r \in SeqReqIds, u \in UserIds, a \in RequestAmounts :
          (frame[SeqProc].pc = "idle" /\ ~requests[r].exists)
          => ENABLED (/\ add_redemption_request(SeqProc, r, u, a, "pending", NoNotes, NoTime)
                      /\ last'.res = "ok"))
  /\ [][last'.op = "add_request" => users' = users /\ ledger' = ledger]_vars

C9_Witness ==
  /\ last = [op |-> "add_request", res |-> "ok"]
  /\ \E r \in ReqIds :
       /\ requests[r].exists /\ requests[r].amount = 2
       /\ users[requests[r].user_id].exists
       /\ users[requests[r].user_id].coins = 0

\* C10: moving a request of an existing owner from 'processed' to another status
\* is answered with success and, in the step of the status write, credits the
\* owner by exactly the request's amount.
C10_RefundOnLeavingProcessed ==
  [][\A p \in Procs, r \in ReqIds :
       (/\ frame[p].op = "update" /\ frame[p].req = r
        /\ requests[r].status = "processed"
        /\ GetOr(frame[p].new_status, requests[r].status) # "processed"
        /\ users[requests[r].user_id].exists
        /\ frame'[p].pc = "idle")
       => /\ last' = [op |-> "update", res |-> "ok"]
          /\ requests'[r].status = frame[p].new_status
          /\ users' = [users EXCEPT ![requests[r].user_id].coins = @ + requests[r].amount]]_vars

C10_Witness ==
  /\ last = [op |-> "update", res |-> "ok"]
  /\ toggle.phase = 2
  /\ requests[toggle.req].status = "pending"
  /\ requests[toggle.req].amount = 2
  /\ users[requests[toggle.req].user_id].coins = 2

\* C1: no lost update: once every handler has answered, each balance is its
\* seed value plus the deltas of all adjustments that were answered with success.
C1_NoLostUpdate ==
  Quiescent => \A u \in UserIds : users[u].exists => users[u].coins = ledger[u]

\* C6: approvals of different requests of one user serialize: the amounts of the
\* requests that end 'processed' sum to no more than the balance before the
\* approvals, and the final balance is that balance minus the sum.
C6_ApprovalsSerialize ==
  Quiescent =>
    \A u \in UserIds :
      users[u].exists =>
        /\ ProcessedSum(u) <= BalanceBeforeApprovals(u)
        /\ users[u].coins = BalanceBeforeApprovals(u) - ProcessedSum(u)

\* C7: the status write and the balance change of update_redemption_request_status
\* are committed together or not at all: the step in which the handler leaves its
\* commit either stores the new status with the debit or refund it stands for, or
\* is answered with an error and stores nothing; no other step changes a stored
\* request.
C7_StatusAndBalanceTogether ==
  [][/\ \A p \in Procs :
          (frame[p].pc = "upd_commit" /\ frame'[p] # frame[p])
          => LET f == frame[p]
                 new_status == GetOr(f.new_status, f.old_status)
             IN \/ /\ last' = [op |-> "update", res |-> "ok"]
                   /\ new_status # f.old_status => requests'[f.req].status = new_status
                   /\ Debits(f.old_status, new_status)
                        => users'[f.user].coins = f.before - f.amount
                   /\ Refunds(f.old_status, new_status)
                        => users'[f.user].coins = f.before + f.amount
                   /\ (~Debits(f.old_status, new_status) /\ ~Refunds(f.old_status, new_status))
                        => users' = users
                \/ /\ last'.res # "ok"
                   /\ users' = users
                   /\ requests' = requests
     /\ \A r \in ReqIds :
          (requests[r].exists /\ requests'[r] # requests[r])
          => \E p \in Procs :
               /\ frame[p].pc = "upd_commit" /\ frame[p].req = r
               /\ frame'[p].pc = "idle"
               /\ last' = [op |-> "update", res |-> "ok"]]_vars

\* An approval that passed the balance check failed at its commit: the request
\* is still 'pending' and nothing was debited.
C7_Witness ==
  /\ last = [op |-> "update", res |-> "error"]
  /\ Quiescent
  /\ \E r \in ReqIds :
       /\ requests[r].exists /\ requests[r].status = "pending" /\ net[r] = 0
       /\ users[requests[r].user_id].exists
       /\ users[requests[r].user_id].coins = requests[r].amount
       /\ ledger[requests[r].user_id] = requests[r].amount

\* C11: a status change whose old and new status are both different from
\* 'processed' leaves every balance as it was and changes nothing of the stored
\* requests but the status, adminNotes and updatedAt of the request it names;
\* it is answered with success and stores the new status.
C11_NonCrossingChangesNoBalance ==
  [][\A p \in Procs, r \in ReqIds :
       (/\ frame[p].op = "update" /\ frame[p].req = r
        /\ requests[r].status # "processed"
        /\ GetOr(frame[p].new_status, requests[r].status) # "processed"
        /\ users[requests[r].user_id].exists)
       => /\ users' = users
          /\ ledger' = ledger
          /\ requests' = [requests EXCEPT ![r] =
               [@ EXCEPT !.status = requests'[r].status,
                         !.adminNotes = requests'[r].adminNotes,
                         !.updatedAt = requests'[r].updatedAt]]
          /\ frame'[p].pc = "idle"
               => /\ last' = [op |-> "update", res |-> "ok"]
                  /\ requests'[r].status = GetOr(frame[p].new_status, requests[r].status)
                  /\ requests'[r].adminNotes = GetOr(frame[p].new_notes, requests[r].adminNotes)]_vars

\* A request moved from 'pending' to 'rejected' with a note: nothing was ever
\* debited for it and its owner holds what the ledger accounts for.
C11_Witness ==
  /\ last = [op |-> "update", res |-> "ok"]
  /\ \E r \in ReqIds :
       /\ requests[r].exists /\ requests[r].status = "rejected"
       /\ requests[r].adminNotes = "n1" /\ requests[r].updatedAt # NoTime
       /\ requests[r].amount = 2 /\ net[r] = 0
       /\ users[requests[r].user_id].exists
       /\ users[requests[r].user_id].coins = 1
       /\ ledger[requests[r].user_id] = 1

\* C12: the amount and the owner of a stored request never change, whatever
\* status changes it goes through.
C12_AmountAndOwnerFixed ==
  [][\A r \in ReqIds :
       requests[r].exists
       => /\ requests'[r].exists
          /\ requests'[r].amount = requests[r].amount
          /\ requests'[r].user_id = requests[r].user_id]_vars

\* A request that went through update_redemption_request_status into 'processed'
\* still carries the amount that was debited for it.
C12_Witness ==
  \E r \in ReqIds :
    /\ requests[r].exists /\ requests[r].status = "processed"
    /\ requests[r].updatedAt # NoTime
    /\ requests[r].amount = 2 /\ net[r] = 2
    /\ requests[r].user_id = "u1"

\* C13: every stored request has a strictly positive amount, and no step that
\* moves a request into 'processed' raises its owner's balance, none that moves
\* it out of 'processed' lowers it.
C13_PositiveAmounts ==
  \A r \in ReqIds : requests[r].exists => requests[r].amount > 0

\* C14: the vote reward is granted once per (user, option): once every add_vote
\* has answered, a user who voted (any number of times, also concurrently) holds
\* one coin more for each option voted on, occurs once in the voter list of each
\* such option, and the vote count of the option is the length of its voter list.
C14_VoteRewardOnce ==
  Quiescent =>
    \A u \in UserIds :
      users[u].exists =>
        /\ users[u].coins = SeedOf(u) + Cardinality(VotedOptions(u))
        /\ \A o \in VotedOptions(u) :
             /\ Occurrences(options[o].votedBy, u) = 1
             /\ options[o].votes = Len(options[o].votedBy)

\* C15: for every stored option the vote count is the number of entries of the
\* voter list and no id occurs twice in the list.
C15_VotesMatchVoters ==
  \A o \in OptionIds :
    options[o].exists =>
      /\ options[o].votes = Len(options[o].votedBy)
      /\ \A u \in UserIds : Occurrences(options[o].votedBy, u) <= 1

\* C16: add_vote by a user already in the voter list of the option is answered
\* with the AlreadyApplied error, not with success.
C16_DuplicateVoteRefused ==
  [][\A q \in PollIds, o \in OptionIds, u \in UserIds :
       (/\ q \in polls /\ options[o].exists /\ options[o].poll_id = q
        /\ Contains(options[o].votedBy, u)
        /\ add_vote_option(SeqProc, q, o, u))
       => /\ last'.op = "add_vote"
          /\ last'.res = "already_applied"]_vars

\* C17: add_vote for a user id that matches no user is answered with NotFound
\* and changes nothing; add_vote changes the vote count and the voter list of an
\* option only in a step that credits one coin to the voter, an existing user.
C17_UnknownVoterRefused ==
  [][\A p \in Procs :
       frame[p].op = "add_vote"
       => /\ (~users[frame[p].user].exists /\ frame'[p].pc = "idle")
               => /\ last' = [op |-> "add_vote", res |-> "not_found"]
                  /\ options' = options
          /\ options' # options
               => /\ users[frame[p].user].exists
                  /\ users'[frame[p].user].coins = users[frame[p].user].coins + 1]_vars

\* C18: apply_referral for a joiner whose referredBy is set is refused, for any
\* code, and so is a code that resolves to the joiner; both leave every user
\* row as it was, and no successful apply_referral makes a user their own
\* referrer.
C18_ReferralRefused ==
  [][/\ \A j \in UserIds, code \in Codes :
          (/\ users[j].exists /\ users[j].referredBy # None
           /\ apply_referral_joiner(SeqProc, j, code))
          => /\ last' = [op |-> "apply_referral", res |-> "already_applied"]
             /\ users' = users
     /\ \A p \in Procs :
          frame[p].op = "apply_referral"
          => /\ users[frame[p].user].referredBy # None => users' = users /\ last'.res # "ok"
             /\ (/\ frame[p].pc = "ref_referrer"
                 /\ CodeOwners(frame[p].referralCode) = {frame[p].user})
                  => /\ last' = [op |-> "apply_referral", res |-> "self_referral"]
                     /\ users' = users
             /\ last'.res = "ok"
                  => /\ users'[frame[p].user].referredBy # frame[p].user
                     /\ CodeOwners(frame[p].referralCode) # {frame[p].user}]_vars

\* A joiner referred by u2 and rewarded once asked again and was refused.
C18_Witness ==
  /\ last = [op |-> "apply_referral", res |-> "already_applied"]
  /\ users["u1"].referredBy = "u2"
  /\ users["u1"].coins = DefaultRefereeCoins
  /\ users["u2"].coins = DefaultReferrerCoins

\* C19: once a user's referredBy holds a referrer id it keeps that value in
\* every later state.
C19_ReferredBySetOnce ==
  [][\A u \in UserIds :
       (users[u].exists /\ users[u].referredBy # None)
       => users'[u].referredBy = users[u].referredBy]_vars

\* C20: the commit of apply_referral either credits the joiner by the configured
\* referee reward, credits the user the code resolves to by the configured
\* referrer reward and sets the joiner's referredBy to that user, all in one step
\* that is answered with success and changes no other user row, or it is answered
\* with an error and changes no user row; no other step of apply_referral
\* changes a user row.
C20_ReferralAtomic ==
  [][\A p \in Procs :
       frame[p].op = "apply_referral"
       => IF frame[p].pc = "ref_commit" /\ frame'[p] # frame[p]
            THEN LET joiner == frame[p].user
                     referrer == frame[p].referrer
                 IN \/ /\ last' = [op |-> "apply_referral", res |-> "ok"]
                       /\ CodeOwners(frame[p].referralCode) = {referrer}
                       /\ users' = [users EXCEPT
                            ![joiner].coins =
                               @ + RewardOf("referralRefereeCoins", DefaultRefereeCoins),
                            ![joiner].referredBy = referrer,
                            ![referrer].coins =
                               @ + RewardOf("referralReferrerCoins", DefaultReferrerCoins)]
                    \/ /\ last' = [op |-> "apply_referral", res |-> "error"]
                       /\ users' = users
            ELSE users' = users]_vars

\* With no policy stored, u1 applied the code of u2: 5 coins for the joiner,
\* 15 for the referrer, nothing for the bystander.
C20_Witness ==
  /\ last = [op |-> "apply_referral", res |-> "ok"]
  /\ settings = [k \in SettingKeys |-> Absent]
  /\ users["u1"].referredBy = "u2" /\ users["u1"].coins = 5
  /\ users["u2"].referredBy = None /\ users["u2"].coins = 15
  /\ users[AdminId].coins = AdminSeedCoins

\* The amounts one successful referral can credit to the joiner and to the
\* referrer: the defaults or a policy that was written.
RefereeRewards == {DefaultRefereeCoins} \cup {r[2] : r \in RewardInputs}
ReferrerRewards == {DefaultReferrerCoins} \cup {r[1] : r \in RewardInputs}

\* C21: of the apply_referral calls for one joiner, however interleaved, at
\* most one is answered with success: what the successful calls credited to the
\* joiner is nothing or one referee reward, what they credited to the referrer
\* is nothing or one referrer reward, and the balances show exactly that.
C21_ReferralOneShot ==
  Quiescent =>
    /\ \A j \in ConcJoiners :
         users[j].exists =>
           /\ ledger[j] - SeedOf(j) \in {0} \cup RefereeRewards
           /\ users[j].coins = ledger[j]
    /\ \A r \in RefSignupUsers \ ConcJoiners :
         users[r].exists =>
           /\ ledger[r] - SeedOf(r) \in {0} \cup ReferrerRewards
           /\ users[r].coins = ledger[r]

\* C22: update_user does not touch the balance, whatever its payload carries in
\* coins: no step of update_user changes the coins of any user, also when an
\* adjustment of the same user was committed between its read and its commit,
\* and its commit writes nothing but the profile columns of the user it names.
C22_ProfileLeavesBalance ==
  [][\A p \in Procs :
       (frame[p].op = "update_user" /\ frame'[p] # frame[p])
       => /\ \A u \in UserIds : users'[u].coins = users[u].coins
          /\ ledger' = ledger
          /\ users' = [users EXCEPT
               ![frame[p].user].referralCode = users'[frame[p].user].referralCode,
               ![frame[p].user].referredBy = users'[frame[p].user].referredBy]
          /\ (last'.res = "ok" /\ frame[p].referredBy # frame[p].old_referredBy)
               => users'[frame[p].user].referredBy = frame[p].referredBy]_vars

\* An update_user whose payload carries another balance was answered after an
\* increment of the same user was committed behind its read: the increment is
\* still there.
C22_Witness ==
  /\ last = [op |-> "update_user", res |-> "ok"]
  /\ users[AdminId].referredBy = "u2"
  /\ users[AdminId].coins = AdminSeedCoins + 2
  /\ ledger[AdminId] = AdminSeedCoins + 2
  /\ \E p \in Procs : frame[p].pc = "user_commit" /\ frame[p].before = AdminSeedCoins + 1
                        /\ frame[p].amount = 0

\* C23: a user created by signup starts with balance 0, whatever the payload
\* carries, and every later change of a balance is the delta of an adjustment
\* that was answered with success.
C23_BalanceFromLedgerOnly ==
  [][\A u \in UserIds :
       /\ (~users[u].exists /\ users'[u].exists) => users'[u].coins = 0
       /\ (users[u].exists /\ users'[u].exists)
            => users'[u].coins - users[u].coins = ledger'[u] - ledger[u]]_vars

\* C24: once every post_ads_reward has answered, the coins of a user's daily
\* records add up to what post_ads_reward added to the user's balance.
C24_AdsLedgerMatchesBalance ==
  Quiescent =>
    \A u \in UserIds :
      users[u].exists => AdsCoinsOf(u) = users[u].coins - SeedOf(u)

\* C25: ads_stats holds at most one row per user and day.
C25_OneRecordPerDay ==
  \A i, j \in 1..Len(ads) :
    (ads[i].user_id = ads[j].user_id /\ ads[i].date = ads[j].date) => i = j

\* C26: get_ads_stats writes nothing, and for a user without a row for the
\* current local day it answers with success and watched = 0, coins = 0.
C26_StatsOfEmptyDay ==
  [][(last' # last /\ last'.op = "get_ads_stats")
       => /\ ads' = ads /\ users' = users /\ ledger' = ledger
          /\ last'.res = "ok"
          /\ FirstRow(last'.userId, strftime(LocalDay(clock))) = 0
               => /\ last'.watched = 0
                  /\ last'.coins = 0]_vars

\* u1 has no row (and no user row): the answer is the zero record.
C26_Witness ==
  /\ last.op = "get_ads_stats" /\ last.res = "ok"
  /\ last.userId = "u1" /\ last.watched = 0 /\ last.coins = 0
  /\ AdsRowsOf("u1") = {}
  /\ AdsRowsOf(AdminId) # {}

\* C27: the record get_ads_stats answers with is the one of the calendar day
\* at UTC+5:30 of the moment of the call: rewards recorded on the local day
\* before are not in it, also when they fall on the same UTC date.
C27_LocalDayKey ==
  [][(last' # last /\ last'.op = "get_ads_stats")
       => LET today == strftime(LocalDay(clock))
              row == FirstRow(last'.userId, today)
          IN /\ last'.date = today
             /\ last'.watched = IF row = 0 THEN 0 ELSE ads[row].watched
             /\ last'.coins = IF row = 0 THEN 0 ELSE ads[row].coins]_vars

\* A reward of 18:00 UTC (23:30 local) is not in the record asked for at
\* 18:30 UTC (00:00 local) of the same UTC date.
C27_Witness ==
  /\ clock = StartInstant + 1
  /\ UtcDay(clock) = UtcDay(StartInstant)
  /\ LocalDay(clock) = LocalDay(StartInstant) + 1
  /\ Len(ads) = 1
  /\ ads[1] = [user_id |-> AdminId, date |-> strftime(LocalDay(StartInstant)),
               watched |-> 1, coins |-> 2]
  /\ last = [op |-> "get_ads_stats", res |-> "ok", userId |-> AdminId,
             date |-> strftime(LocalDay(clock)), watched |-> 0, coins |-> 0]

\* C28: the commit of post_ads_reward credits the amount of the payload when
\* it is positive and nothing when it is zero or negative, to the balance and
\* to the coins of the day's record alike; neither ever goes down.
C28_GrantClamped ==
  [][\A p \in Procs :
       (frame[p].pc = "ads_commit" /\ last'.res = "ok")
       => LET f == frame[p]
              credit == IF f.payload > 0 THEN f.payload ELSE 0
          IN /\ users'[f.user].coins = users[f.user].coins + credit
             /\ DayCoins(ads', f.user, f.date) = DayCoins(ads, f.user, f.date) + credit
             /\ users'[f.user].coins >= users[f.user].coins
             /\ DayCoins(ads', f.user, f.date) >= DayCoins(ads, f.user, f.date)]_vars

\* After a reward of two coins and a change of day, a reward with an amount of
\* zero or less was answered with success: it made a record of no watched ad
\* and no coins, and the balance is the one the first reward left.
C28_Witness ==
  /\ last = [op |-> "post_ads_reward", res |-> "ok"]
  /\ users[AdminId].coins = AdminSeedCoins + 2
  /\ Len(ads) = 2
  /\ ads[1].coins = 2 /\ ads[1].watched = 1
  /\ ads[2].coins = 0 /\ ads[2].watched = 0

\* C29: get_coin_value and get_referral_rewards always answer with success.
\* The coin value is the number the stored text reads as, 0 when there is no
\* row or the text is not that of a number; each reward is the integer its
\* own stored text reads as, or its own default (15 for the referrer, 5 for
\* the referee) when there is no row or the text is no integer, whatever the
\* other key holds.
C29_PolicyReadsFallBack ==
  /\ last.op = "get_coin_value" =>
       LET v == settings["coinValueINR"]
       IN /\ last.res = "ok"
          /\ \A x \in CoinTenths :
               (str_float(x) = v \/ (x % 10 = 0 /\ str(x \div 10) = v))
                 => last.coinValueINR = Finite(x)
          /\ (\A x \in CoinTenths :
                str_float(x) # v /\ ~(x % 10 = 0 /\ str(x \div 10) = v))
                 => last.coinValueINR = Finite(0)
  /\ last.op = "get_referral_rewards" =>
       LET a == settings["referralReferrerCoins"]
           b == settings["referralRefereeCoins"]
       IN /\ last.res = "ok"
          /\ \A n \in IntRange : str(n) = a => last.referrerCoins = n
          /\ (\A n \in IntRange : str(n) # a) => last.referrerCoins = DefaultReferrerCoins
          /\ \A n \in IntRange : str(n) = b => last.refereeCoins = n
          /\ (\A n \in IntRange : str(n) # b) => last.refereeCoins = DefaultRefereeCoins

\* C30: every stored game result has coinsWon >= 0, and the coinsWon of the
\* stored results of an existing user add up to what save_game_result added
\* to the user's balance.
C30_GameRecordsMatchCredits ==
  /\ \A g \in GameIds : games[g].exists => games[g].coinsWon >= 0
  /\ \A u \in UserIds :
       users[u].exists => GameCoinsOf(u) = users[u].coins - SeedOf(u)

\* C31: save_game_result for a user id without a user row does not succeed
\* and stores no game result.
C31_UnknownUserGameRefused ==
  [][\A p \in Procs :
       (frame[p].pc = "game_commit" /\ ~users[frame[p].user].exists)
         => /\ last'.res # "ok"
            /\ games' = games]_vars

\* C32: decrement_user_coins with an amount above the balance of the user
\* answers insufficient funds and writes nothing; with an amount up to the
\* balance it goes on to its commit, which leaves the balance lower by the
\* amount and returns that balance.
C32_DecrementChecksFunds ==
  [][/\ \A u \in UserIds, a \in 1..MaxCoins :
          (decrement_user_coins_read(SeqProc, u, a) /\ users[u].exists)
            => IF users[u].coins < a
                 THEN /\ last' = [op |-> "decrement", res |-> "insufficient"]
                      /\ users' = users
                      /\ frame'[SeqProc].pc = "idle"
                 ELSE /\ frame'[SeqProc].pc = "dec_commit"
                      /\ users' = users
     /\ (frame[SeqProc].pc = "dec_commit" /\ last'.res = "ok")
          => LET f == frame[SeqProc]
             IN /\ users[f.user].coins >= f.amount
                /\ users'[f.user].coins = users[f.user].coins - f.amount
                /\ last' = [op |-> "decrement", res |-> "ok",
                            coins |-> users[f.user].coins - f.amount]]_vars

\* A decrement on u1, whose balance is 0, was refused and the balance is
\* still 0.
C32_Witness ==
  /\ users["u1"].exists /\ users["u1"].coins = 0
  /\ ledger["u1"] = 0
  /\ last = [op |-> "decrement", res |-> "insufficient"]

\* C33: every step that changes the balance of a user prints a line naming
\* the user with the balance before and the balance after the change.
C33_EveryChangeLogged ==
  [][\A u \in UserIds :
       (users[u].exists /\ users'[u].exists /\ users'[u].coins # users[u].coins)
         => \E e \in stdout' : /\ e.user = u
                                /\ e.before = users[u].coins
                                /\ e.after = users'[u].coins]_vars

\* C34: the steps of the scenario, each from the state the scenario has
\* reached.  From balance 0 a vote commits balance 1.  From balance 1 and no
\* record, an ad reward of 5 commits balance 6 and the day's record watched 1,
\* coins 5.  At balance 6 a request for 6 is stored pending and the balance
\* stays 6.  Setting the pending request to processed is not refused and
\* commits balance 0; setting the processed request to rejected commits
\* balance 6.
C34_Scenario ==
  [][LET f == frame[SeqProc]
         u == ScenarioUser
         r == ScenarioReq
     IN /\ (f.pc = "vote_commit" /\ f.user = u /\ users[u].exists /\ users[u].coins = 0)
             => /\ last' = [op |-> "add_vote", res |-> "ok"]
                /\ users'[u].coins = 1
        /\ (f.pc = "ads_commit" /\ f.user = u /\ users[u].coins = 1 /\ ads = <<>>)
             => /\ last' = [op |-> "post_ads_reward", res |-> "ok"]
                /\ users'[u].coins = 6
                /\ ads' = <<[user_id |-> u, date |-> strftime(LocalDay(clock)),
                             watched |-> 1, coins |-> 5]>>
        /\ (last'.op = "add_request" /\ ~requests[r].exists /\ users[u].coins = 6)
             => /\ last'.res = "ok"
                /\ requests'[r].exists /\ requests'[r].status = "pending"
                /\ requests'[r].user_id = u /\ requests'[r].amount = 6
                /\ users'[u].coins = 6
        /\ (f.pc = "upd_user" /\ f.req = r /\ requests[r].status = "pending"
              /\ f.new_status = "processed" /\ users[u].coins = 6)
             => frame'[SeqProc].pc = "upd_commit"
        /\ (f.pc = "upd_commit" /\ f.req = r /\ requests[r].status = "pending"
              /\ f.new_status = "processed" /\ users[u].coins = 6)
             => /\ last' = [op |-> "update", res |-> "ok"]
                /\ requests'[r].status = "processed"
                /\ users'[u].coins = 0
        /\ (f.pc = "upd_commit" /\ f.req = r /\ requests[r].status = "processed"
              /\ f.new_status = "rejected" /\ users[u].coins = 0)
             => /\ last' = [op |-> "update", res |-> "ok"]
                /\ requests'[r].status = "rejected"
                /\ users'[u].coins = 6]_vars

\* The end of the scenario: one vote, one ad of 5 coins, the request for 6
\* debited and refunded in full, rejected, and the balance at 6.
C34_Witness ==
  /\ users[ScenarioUser].exists /\ users[ScenarioUser].coins = 6
  /\ Cardinality({o \in OptionIds : Contains(options[o].votedBy, ScenarioUser)}) = 1
  /\ Len(ads) = 1 /\ ads[1].watched = 1 /\ ads[1].coins = 5
  /\ requests[ScenarioReq].exists /\ requests[ScenarioReq].status = "rejected"
  /\ requests[ScenarioReq].amount = 6
  /\ net[ScenarioReq] = 0
  /\ ledger[ScenarioUser] = 6
  /\ last = [op |-> "update", res |-> "ok"]

\* C35: once the concurrent approvals of one pending request have answered
\* and the request is 'processed', the balance of the owner is lower than
\* before by the amount of the request, once.
C35_SameRequestDebitedOnce ==
  (Quiescent /\ requests[SameRequest].exists
             /\ requests[SameRequest].status = "processed")
    => users[SameRequestOwner].coins
         = SeedOf(SameRequestOwner) - requests[SameRequest].amount

\* C36: the two rewards a successful apply_referral credits are the pair of
\* one policy: the defaults or a pair put_referral_rewards was called with.
C36_RewardPairOfOnePolicy ==
  [][\A p \in Procs :
       (frame[p].pc = "ref_commit" /\ frame'[p].pc = "idle"
          /\ last' = [op |-> "apply_referral", res |-> "ok"])
         => <<frame[p].referrer_reward, frame[p].referee_reward>>
              \in {<<DefaultReferrerCoins, DefaultRefereeCoins>>} \cup RewardInputs]_vars

C38_AttemptsInRange ==
  \A u \in UserIds :
    users[u].exists => /\ users[u].dailyAttempts >= 0
                       /\ users[u].dailyAttempts <= DefaultAttempts

\* C39: a thread inside a handler always has a next statement to take,
\* whatever the other thread is doing, and every started handler returns.
C39_HandlersReturn ==
  /\ [](\A p \in Procs : frame[p].pc # "idle" => ENABLED LedgerContinue(p))
  /\ \A p \in Procs : (frame[p].pc # "idle") ~> (frame[p].pc = "idle")

\* A status change of the admin's request and an ad reward of the admin are
\* both at their commit.
C39_Witness ==
  /\ frame["p1"].pc = "upd_commit" /\ frame["p1"].user = AdminId
  /\ frame["p2"].pc = "ads_commit" /\ frame["p2"].user = AdminId

====
